---- MODULE Spec2Model ----
(***************************************************************************)
(* Model of the ATT dissector of monitor/att.c: the opcode dispatch and    *)
(* length validation of att_packet, the per-connection attribute databases *)
(* and pending-read queue, and the Read Request / Read Response, write,    *)
(* notification and multiple-variable-length handlers.                     *)
(*                                                                         *)
(* One PDU is decoded per step (the dissector is single-threaded and runs  *)
(* one att_packet call to completion).  The decoded PDU, what was printed  *)
(* and what was called are kept in the variable out, so that properties of *)
(* a call can be stated over states.                                       *)
(***************************************************************************)
EXTENDS Integers, Sequences, FiniteSets, TLC

VARIABLES
    conns,      \* connection handles for which packet_get_conn_data() is non-NULL
    att_data,   \* conn->data of each connection handle (struct att_conn_data)
    out,        \* record of the last att_packet() call
    crashed,    \* the process died (NULL dereference or faulting read)
    pending     \* SpecVL only: the PDU drawn by Init and not yet decoded

vars == <<conns, att_data, out, crashed, pending>>

(***************************************************************************)
(* Bounds of the model.                                                    *)
(***************************************************************************)
MaxQueue == 2       \* pending reads kept per connection before requests stop
MaxValue == 6       \* longest value carried by a multiple-variable-length PDU

ConnHandles == {1, 2}
Chans == {1, 2}

(***************************************************************************)
(* Bytes and little-endian fields.  Offsets are 0-based offsets into the   *)
(* PDU buffer buf (offset 0 is the opcode byte).                           *)
(***************************************************************************)
ByteAt(buf, off) == IF off < Len(buf) THEN buf[off + 1] ELSE 0

get_le16(buf, off) == ByteAt(buf, off) + 256 * ByteAt(buf, off + 1)

(***************************************************************************)
(* struct l2cap_frame: direction, connection handle, channel, and the      *)
(* remaining bytes [pos, pos + size) of the buffer.                        *)
(***************************************************************************)
l2cap_frame_init(in, handle, cid, pos, size) ==
    [in |-> in, handle |-> handle, chan |-> cid, pos |-> pos, size |-> size]

\* l2cap_frame_pull and the l2cap_frame_get_* readers: fail without any
\* effect when fewer than len bytes remain, else advance by len.
CanPull(f, len) == f.size >= len

l2cap_frame_pull(f, len) ==
    IF f.size < len THEN f
    ELSE [f EXCEPT !.pos = @ + len, !.size = @ - len]

(***************************************************************************)
(* What a call prints: a sequence of events.                               *)
(***************************************************************************)
Err(s) == [t |-> "error", s |-> s, n |-> 0]
Field(s, n) == [t |-> "field", s |-> s, n |-> n]
Hex(s, n) == [t |-> "hex", s |-> s, n |-> n]

(***************************************************************************)
(* Attribute databases.  An attribute is known by the database it lives in *)
(* and its handle; uuid is its 16-bit type.  A database maps each handle   *)
(* to the type stored there, 0 where it stores nothing.                    *)
(***************************************************************************)
DbHandles == 1 .. 5

EmptyDb == [h \in DbHandles |-> 0]

\* The persisted state btd_settings_gatt_db_load() reads: the local
\* attributes file and the cache file of the peer.  0x2902, 0x2bcd, 0x2bc6
\* and 0x2800 locally; 0x2bca, 0x2902, 0x2800 and 0x2bc6 on the peer;
\* handle 5 is in neither.
LocalFile == [h \in DbHandles |->
    CASE h = 1 -> 10498 [] h = 2 -> 11213 [] h = 3 -> 11206 [] h = 4 -> 10240
      [] OTHER -> 0]

CacheFile == [h \in DbHandles |->
    CASE h = 1 -> 11210 [] h = 2 -> 10498 [] h = 3 -> 10240 [] h = 4 -> 11206
      [] OTHER -> 0]

gatt_db_isempty(db) == \A h \in DOMAIN db : db[h] = 0

NoAttr == [db |-> "none", handle |-> 0, uuid |-> 0]

gatt_db_get_attribute(which, db, handle) ==
    IF handle \in DOMAIN db /\ db[handle] # 0
    THEN [db |-> which, handle |-> handle, uuid |-> db[handle]]
    ELSE NoAttr

(***************************************************************************)
(* struct att_conn_data: the two databases and the queue of pending reads. *)
(* present is FALSE while conn->data is NULL; queue is FALSE while         *)
(* data->reads is NULL.                                                    *)
(***************************************************************************)
NoData == [present |-> FALSE, ldb |-> EmptyDb, rdb |-> EmptyDb,
           queue |-> FALSE, reads |-> <<>>]

load_gatt_db(data) ==
    LET d == IF ~data.present
             THEN [present |-> TRUE, ldb |-> EmptyDb, rdb |-> EmptyDb,
                   queue |-> FALSE, reads |-> <<>>]
             ELSE data
    IN  IF ~gatt_db_isempty(d.ldb) /\ ~gatt_db_isempty(d.rdb) THEN d
        ELSE [d EXCEPT
                !.ldb = IF gatt_db_isempty(@) THEN LocalFile ELSE @,
                !.rdb = IF gatt_db_isempty(@) THEN CacheFile ELSE @]

(***************************************************************************)
(* The registry of attribute types with a value decoder.                   *)
(***************************************************************************)
GATT_HANDLER(uuid, read, write, notify) ==
    [uuid |-> uuid, read |-> read, write |-> write, notify |-> notify]

gatt_handlers == <<
    GATT_HANDLER(10498, "ccc_read", "ccc_write", "NULL"),
    GATT_HANDLER(11204, "ase_read", "NULL", "ase_notify"),
    GATT_HANDLER(11205, "ase_read", "NULL", "ase_notify"),
    GATT_HANDLER(11206, "NULL", "ase_cp_write", "ase_cp_notify"),
    GATT_HANDLER(11209, "pac_read", "NULL", "pac_notify"),
    GATT_HANDLER(11210, "pac_loc_read", "NULL", "pac_loc_notify"),
    GATT_HANDLER(11211, "pac_read", "NULL", "pac_notify"),
    GATT_HANDLER(11212, "pac_loc_read", "NULL", "pac_loc_notify"),
    GATT_HANDLER(11213, "pac_context_read", "NULL", "pac_context_notify"),
    GATT_HANDLER(11214, "pac_context_read", "NULL", "pac_context_notify") >>

\* The NULL returned when no entry has the type of the attribute.
NoHandler == [uuid |-> 0, read |-> "NULL", write |-> "NULL", notify |-> "NULL"]

get_handler(attr) ==
    LET hits == {i \in DOMAIN gatt_handlers : gatt_handlers[i].uuid = attr.uuid}
    IN  IF hits = {} THEN NoHandler
        ELSE gatt_handlers[CHOOSE i \in hits : \A j \in hits : i <= j]

(***************************************************************************)
(* Sequencing.  The({e : x \in {v}}) is e with x standing for the value v, *)
(* which is evaluated once: it stands for the C statement "x = v;"         *)
(* followed by the code e that uses x, so the statement that computes v is *)
(* the innermost line and the statements that follow it are the lines      *)
(* above.                                                                  *)
(***************************************************************************)
The(S) == CHOOSE y \in S : TRUE

(***************************************************************************)
(* Value decoders.  A decoder is handed a frame and reads it through the   *)
(* l2cap_frame_get_* readers, which advance the frame it was handed.  The  *)
(* result of a decoder is the frame as it leaves it, what it printed, and  *)
(* whether it called through a NULL pointer (crash) or read outside an     *)
(* array (oob).                                                            *)
(***************************************************************************)
Res(f, ev) == [f |-> f, ok |-> TRUE, ev |-> ev, crash |-> FALSE, oob |-> FALSE]
Fail(f, ev) == [f |-> f, ok |-> FALSE, ev |-> ev, crash |-> FALSE, oob |-> FALSE]

\* r with the events pre printed before it.
After(pre, r) == [r EXCEPT !.ev = pre \o @]

\* "done:" of the decoders: what is left of the frame is dumped.
DumpRest(r0) ==
    The({ IF r.f.size # 0 THEN [r EXCEPT !.ev = Append(@, Hex("Data", r.f.size))]
          ELSE r
        : r \in {r0} })

\* The steps of a decoder: a field of fixed width, or a length byte and that
\* many bytes of value.
Fixed(label, width) ==
    [label |-> label, width |-> width, lv |-> FALSE, decoder |-> <<>>]
LV(label, decoder) ==
    [label |-> label, width |-> 1, lv |-> TRUE, decoder |-> decoder]

\* One fixed-width field: printed when it fits, an error when it does not.
get_field(f, label, width) ==
    IF CanPull(f, width) THEN Res(l2cap_frame_pull(f, width), <<Field(label, width)>>)
    ELSE Fail(f, <<Err(label)>>)

(***************************************************************************)
(* LTV records.  A decoder table is a sequence of (type, func) entries;    *)
(* the table "NULL, 0" is the empty sequence.                              *)
(***************************************************************************)
Ltv(s, n) == [t |-> "ltv", s |-> s, n |-> n]

LTV_DEC(type, func) == [type |-> type, func |-> func]

NoDecoders == <<>>

ase_metadata_table ==
    <<LTV_DEC(1, "ase_decode_preferred_context"),
      LTV_DEC(2, "ase_decode_context"),
      LTV_DEC(3, "ase_decode_program_info"),
      LTV_DEC(4, "ase_decode_language")>>

pac_cap_table ==
    <<LTV_DEC(1, "pac_decode_freq"),
      LTV_DEC(2, "pac_decode_duration"),
      LTV_DEC(3, "pac_decode_channels"),
      LTV_DEC(4, "pac_decode_frame_length"),
      LTV_DEC(5, "pac_decode_sdu")>>

ase_cc_table ==
    <<LTV_DEC(1, "ase_decode_freq"),
      LTV_DEC(2, "ase_decode_duration"),
      LTV_DEC(3, "ase_decode_location"),
      LTV_DEC(4, "ase_decode_frame_length"),
      LTV_DEC(5, "ase_decode_blocks")>>

\* The decoder a table has for a type; a type the table does not have is
\* raw-dumped.
get_ltv_decoder(decoder, type) ==
    IF \E i \in DOMAIN decoder : decoder[i].type = type
    THEN decoder[CHOOSE i \in DOMAIN decoder : decoder[i].type = type].func
    ELSE "print_hex_field"

\* The records of the len bytes at pos: a length byte, a type byte and
\* length - 1 bytes of value.  A record is decoded by the decoder the table
\* has for its type.  A length of 0 is a record without a type; a length
\* that exceeds what is left ends the walk and what is left is dumped.
RECURSIVE packet_print_ltv(_, _, _, _)
packet_print_ltv(buf, pos, len, decoder) ==
    IF len = 0 THEN <<>>
    ELSE IF ByteAt(buf, pos) = 0
    THEN <<Ltv("empty", 0)>> \o packet_print_ltv(buf, pos + 1, len - 1, decoder)
    ELSE IF ByteAt(buf, pos) > len - 1 THEN <<Ltv("invalid size", len - 1)>>
    ELSE <<Ltv(get_ltv_decoder(decoder, ByteAt(buf, pos + 1)), ByteAt(buf, pos + 1))>>
         \o packet_print_ltv(buf, pos + 1 + ByteAt(buf, pos),
                             len - 1 - ByteAt(buf, pos), decoder)

\* Faulty variant of print_ase_lv: the length byte is believed, and a value
\* that does not fit is taken to be what is left of the frame.
print_ase_lv_unchecked(f, buf, label, decoder) ==
    IF ~CanPull(f, 1) THEN Fail(f, <<Err(label)>>)
    ELSE The({ IF ~CanPull(f1, ByteAt(buf, f.pos))
               THEN Res(l2cap_frame_pull(f1, f1.size),
                        <<Field(label, ByteAt(buf, f.pos))>>)
               ELSE Res(l2cap_frame_pull(f1, ByteAt(buf, f.pos)),
                        <<Field(label, ByteAt(buf, f.pos))>>
                        \o packet_print_ltv(buf, f1.pos, ByteAt(buf, f.pos), decoder))
             : f1 \in {l2cap_frame_pull(f, 1)} })

\* A length byte and that many bytes of value, which are LTV records for
\* the decoders of the table.  The length byte stays consumed when the
\* value does not fit.
print_ase_lv(f, buf, label, decoder) ==
    IF ~CanPull(f, 1) THEN Fail(f, <<Err(label)>>)
    ELSE The({ IF ~CanPull(f1, ByteAt(buf, f.pos)) THEN Fail(f1, <<Err(label)>>)
               ELSE Res(l2cap_frame_pull(f1, ByteAt(buf, f.pos)),
                        <<Field(label, ByteAt(buf, f.pos))>>
                        \o packet_print_ltv(buf, f1.pos, ByteAt(buf, f.pos), decoder))
             : f1 \in {l2cap_frame_pull(f, 1)} })

\* The steps of a decoder in sequence: a step runs only when the one before
\* it returned true, on the frame that one left.
RECURSIVE get_fields(_, _, _)
get_fields(f, buf, items) ==
    IF items = <<>> THEN Res(f, <<>>)
    ELSE The({ IF ~r.ok THEN r
               ELSE After(r.ev, get_fields(r.f, buf, Tail(items)))
             : r \in {IF items[1].lv THEN print_ase_lv(f, buf, items[1].label,
                                                          items[1].decoder)
                      ELSE get_field(f, items[1].label, items[1].width)} })

(***************************************************************************)
(* Bitfields.  A table is a sequence of (bit, str) entries; the            *)
(* terminating entry of the C array, whose str is NULL, is not stored.     *)
(***************************************************************************)
BitLine(s, n) == [t |-> "bit", s |-> s, n |-> n]
Unknown(mask) == [t |-> "unknown", s |-> "Unknown fields", n |-> mask]

\* Bit b of v, and v with bit b cleared.
TestBit(v, b) == (v \div 2^b) % 2
ClearBit(v, b) == IF TestBit(v, b) = 1 THEN v - 2^b ELSE v

ccc_value_table ==
    <<[bit |-> 0, str |-> "Notification (0x01)"],
      [bit |-> 1, str |-> "Indication (0x02)"]>>

pac_context_table ==
    <<[bit |-> 0, str |-> "Unspecified (0x0001)"],
      [bit |-> 1, str |-> "Conversational (0x0002)"],
      [bit |-> 2, str |-> "Media (0x0004)"],
      [bit |-> 3, str |-> "Game (0x0008)"],
      [bit |-> 4, str |-> "Instructional (0x0010)"],
      [bit |-> 5, str |-> "Voice Assistants (0x0020)"],
      [bit |-> 6, str |-> "Live (0x0040)"],
      [bit |-> 7, str |-> "Sound Effects (0x0080)"],
      [bit |-> 8, str |-> "Notifications (0x0100)"],
      [bit |-> 9, str |-> "Ringtone (0x0200)"],
      [bit |-> 10, str |-> "Alerts (0x0400)"],
      [bit |-> 11, str |-> "Emergency alarm (0x0800)"],
      [bit |-> 12, str |-> "RFU (0x1000)"],
      [bit |-> 13, str |-> "RFU (0x2000)"],
      [bit |-> 14, str |-> "RFU (0x4000)"],
      [bit |-> 15, str |-> "RFU (0x8000)"]>>

\* print_bitfield from entry i on: the table is walked in order; an entry
\* whose bit is set in val prints its label and clears its bit in mask.
\* The result is the lines printed and the mask returned.
RECURSIVE print_bitfield_from(_, _, _, _)
print_bitfield_from(val, table, i, mask) ==
    IF i > Len(table) THEN [ev |-> <<>>, mask |-> mask]
    ELSE IF TestBit(val, table[i].bit) = 1
    THEN The({ [r EXCEPT !.ev = <<BitLine(table[i].str, table[i].bit)>> \o @]
             : r \in {print_bitfield_from(val, table, i + 1,
                                          ClearBit(mask, table[i].bit))} })
    ELSE print_bitfield_from(val, table, i + 1, mask)

print_bitfield(val, table) == print_bitfield_from(val, table, 1, val)

\* Faulty variant of print_unknown_fields: the line carries the value, not
\* what print_bitfield returned.
print_unknown_fields_value(val, table, width) ==
    print_bitfield(val, table).ev
    \o (IF val # 0 THEN <<Unknown(val)>> ELSE <<>>)

\* "mask = print_bitfield(...); if (mask) print_text(Unknown fields)": mask
\* is an unsigned integer of width bits.
print_unknown_fields(val, table, width) ==
    The({ r.ev \o (IF r.mask % 2^width # 0 THEN <<Unknown(r.mask % 2^width)>>
                   ELSE <<>>)
        : r \in {print_bitfield(val, table)} })

print_ccc_value(f, buf) ==
    IF CanPull(f, 1)
    THEN Res(l2cap_frame_pull(f, 1),
             print_unknown_fields(ByteAt(buf, f.pos), ccc_value_table, 8))
    ELSE Fail(f, <<Err("invalid size")>>)

print_location(f) == DumpRest(get_field(f, "Location", 4))

\* One context of print_pac_context: the 16-bit value, its labels and its
\* unknown fields.
print_context_value(f, buf, label) ==
    IF ~CanPull(f, 2) THEN Fail(f, <<Err(label)>>)
    ELSE Res(l2cap_frame_pull(f, 2),
             <<Field(label, 2)>>
             \o print_unknown_fields(get_le16(buf, f.pos), pac_context_table, 16))

print_pac_context(f, buf) ==
    DumpRest(The({ IF ~r.ok THEN r
                   ELSE After(r.ev, print_context_value(r.f, buf, "Source Context"))
                 : r \in {print_context_value(f, buf, "Sink Context")} }))

CodecFields == <<Fixed("Codec", 1), Fixed("Codec Company ID", 2),
                 Fixed("Codec Vendor ID", 2)>>

print_ase_codec(f, buf) == get_fields(f, buf, CodecFields)

\* print_ase_metadata hands print_ase_lv no decoder table (NULL, 0);
\* Metadata is that call as a step of a decoder.
print_ase_metadata(f, buf) == print_ase_lv(f, buf, "Metadata", NoDecoders)

Metadata == LV("Metadata", NoDecoders)

print_ase_config(f, buf) ==
    get_fields(f, buf,
               <<Fixed("Framing", 1), Fixed("PHY", 1), Fixed("RTN", 1),
                 Fixed("Max Transport Latency", 2),
                 Fixed("Presentation Delay Min", 3),
                 Fixed("Presentation Delay Max", 3),
                 Fixed("Preferred Presentation Delay Min", 3),
                 Fixed("Preferred Presentation Delay Max", 3)>>
               \o CodecFields \o <<LV("Codec Specific Configuration", ase_cc_table)>>)

QosFields == <<Fixed("CIG ID", 1), Fixed("CIS ID", 1), Fixed("SDU Interval", 3),
               Fixed("Framing", 1), Fixed("PHY", 1), Fixed("Max SDU", 2),
               Fixed("RTN", 1), Fixed("Max Transport Latency", 2),
               Fixed("Presentation Delay", 3)>>

print_ase_qos(f, buf) == get_fields(f, buf, QosFields)

print_ase_metadata_status(f, buf) ==
    get_fields(f, buf, <<Fixed("CIG ID", 1), Fixed("CIS ID", 1), Metadata>>)

\* Faulty variant of ase_state_body: a state without a payload decoder is
\* decoded as a state that carries metadata.
ase_state_body_always(state, f, buf) ==
    CASE state = 1 -> print_ase_config(f, buf)
      [] state = 2 -> print_ase_qos(f, buf)
      [] OTHER -> print_ase_metadata_status(f, buf)

\* The state byte selects what follows the ASE ID and the state.
ase_state_body(state, f, buf) ==
    CASE state = 1 -> print_ase_config(f, buf)
      [] state = 2 -> print_ase_qos(f, buf)
      [] state \in {3, 4, 5} -> print_ase_metadata_status(f, buf)
      [] OTHER -> Res(f, <<>>)

print_ase_status(f, buf) ==
    DumpRest(
        IF ~CanPull(f, 1) THEN Fail(f, <<Err("ASE ID")>>)
        ELSE IF ~CanPull(l2cap_frame_pull(f, 1), 1)
        THEN Fail(l2cap_frame_pull(f, 1), <<Field("ASE ID", 1), Err("ASE State")>>)
        ELSE After(<<Field("ASE ID", 1),
                     Field(IF ByteAt(buf, f.pos + 1) <= 6 THEN "State"
                           ELSE "State: Reserved", ByteAt(buf, f.pos + 1))>>,
                   ase_state_body(ByteAt(buf, f.pos + 1),
                                  l2cap_frame_pull(l2cap_frame_pull(f, 1), 1), buf)))

RECURSIVE print_pac_loop(_, _, _, _)
print_pac_loop(f, buf, i, num) ==
    IF i >= num THEN Res(f, <<>>)
    ELSE The({ IF ~r.ok THEN After(<<Field("PAC", i)>>, r)
               ELSE After(<<Field("PAC", i)>> \o r.ev,
                          print_pac_loop(r.f, buf, i + 1, num))
             : r \in {get_fields(f, buf,
                          CodecFields \o <<LV("Codec Specific Capabilities", pac_cap_table),
                                           Metadata>>)} })

print_pac(f, buf) ==
    IF ~CanPull(f, 1) THEN DumpRest(Fail(f, <<Err("Number of PAC(s)")>>))
    ELSE DumpRest(After(<<Field("Number of PAC(s)", ByteAt(buf, f.pos))>>,
                        print_pac_loop(l2cap_frame_pull(f, 1), buf, 0,
                                       ByteAt(buf, f.pos))))

(***************************************************************************)
(* ASE control point: commands and command responses.                      *)
(***************************************************************************)
AseId == <<Fixed("ASE ID", 1)>>

ase_config_cmd(f, buf) ==
    get_fields(f, buf, AseId \o <<Fixed("Target Latency", 1), Fixed("PHY", 1)>>
                       \o CodecFields \o <<LV("Codec Specific Configuration", ase_cc_table)>>)

ase_qos_cmd(f, buf) == get_fields(f, buf, AseId \o QosFields)

ase_enable_cmd(f, buf) == get_fields(f, buf, AseId \o <<Metadata>>)

ase_start_cmd(f, buf) == get_fields(f, buf, AseId)
ase_disable_cmd(f, buf) == get_fields(f, buf, AseId)
ase_stop_cmd(f, buf) == get_fields(f, buf, AseId)

ase_metadata_cmd(f, buf) == get_fields(f, buf, AseId \o <<Metadata>>)

ase_release_cmd(f, buf) == get_fields(f, buf, AseId)

ASE_CMD(desc, func) == [desc |-> desc, func |-> func]

\* Slot 0 has no designated initializer: its desc and func are NULL.
ase_cmd_table == [op \in 0 .. 8 |->
    CASE op = 1 -> ASE_CMD("Codec Configuration", "ase_config_cmd")
      [] op = 2 -> ASE_CMD("QoS Configuration", "ase_qos_cmd")
      [] op = 3 -> ASE_CMD("Enable", "ase_enable_cmd")
      [] op = 4 -> ASE_CMD("Receiver Start Ready", "ase_start_cmd")
      [] op = 5 -> ASE_CMD("Disable", "ase_disable_cmd")
      [] op = 6 -> ASE_CMD("Receiver Stop Ready", "ase_stop_cmd")
      [] op = 7 -> ASE_CMD("Update Metadata", "ase_metadata_cmd")
      [] op = 8 -> ASE_CMD("Release", "ase_release_cmd")
      [] OTHER -> ASE_CMD("NULL", "NULL")]

ARRAY_SIZE(table) == Cardinality(DOMAIN table)

\* The result of ase_get_cmd: found is FALSE for the NULL return; outside is
\* TRUE when the slot returned lies past the end of the table, and what is
\* read from it is not a command of the table.
ase_get_cmd(op) ==
    IF op > ARRAY_SIZE(ase_cmd_table)
    THEN [found |-> FALSE, outside |-> FALSE, desc |-> "NULL", func |-> "NULL"]
    ELSE IF op \in DOMAIN ase_cmd_table
    THEN [found |-> TRUE, outside |-> FALSE, desc |-> ase_cmd_table[op].desc,
          func |-> ase_cmd_table[op].func]
    ELSE [found |-> TRUE, outside |-> TRUE, desc |-> "garbage", func |-> "garbage"]

\* cmd->func(frame); a func that is NULL or not of the table kills the process.
ase_cmd_func(func, f, buf) ==
    CASE func = "ase_config_cmd" -> ase_config_cmd(f, buf)
      [] func = "ase_qos_cmd" -> ase_qos_cmd(f, buf)
      [] func = "ase_enable_cmd" -> ase_enable_cmd(f, buf)
      [] func = "ase_start_cmd" -> ase_start_cmd(f, buf)
      [] func = "ase_disable_cmd" -> ase_disable_cmd(f, buf)
      [] func = "ase_stop_cmd" -> ase_stop_cmd(f, buf)
      [] func = "ase_metadata_cmd" -> ase_metadata_cmd(f, buf)
      [] func = "ase_release_cmd" -> ase_release_cmd(f, buf)
      [] OTHER -> [Fail(f, <<>>) EXCEPT !.crash = TRUE]

RECURSIVE print_ase_cmd_loop(_, _, _, _, _)
print_ase_cmd_loop(f, buf, cmd, i, num) ==
    IF ~(i < num /\ f.size # 0) THEN Res(f, <<>>)
    ELSE The({ IF ~r.ok THEN After(<<Field("ASE", i)>>, r)
               ELSE After(<<Field("ASE", i)>> \o r.ev,
                          print_ase_cmd_loop(r.f, buf, cmd, i + 1, num))
             : r \in {ase_cmd_func(cmd.func, f, buf)} })

\* The header of a control point PDU printed before what the loop printed;
\* a slot read past the end of the table is recorded.
ase_cp_head(r, op, num, cmd) ==
    [r EXCEPT !.ev = <<Field("Opcode", op), Field("Number of ASE(s)", num)>> \o @,
              !.oob = @ \/ cmd.outside]

print_ase_cmd(f, buf) ==
    IF ~CanPull(f, 1) THEN DumpRest(Fail(f, <<Err("opcode")>>))
    ELSE IF ~CanPull(l2cap_frame_pull(f, 1), 1)
    THEN DumpRest(Fail(l2cap_frame_pull(f, 1), <<Err("num")>>))
    ELSE The({ IF ~cmd.found
               THEN DumpRest(Res(l2cap_frame_pull(l2cap_frame_pull(f, 1), 1),
                                 <<Field("Opcode: Reserved", ByteAt(buf, f.pos))>>))
               ELSE The({ IF r.crash THEN r ELSE DumpRest(r)
                        : r \in {ase_cp_head(
                              print_ase_cmd_loop(
                                  l2cap_frame_pull(l2cap_frame_pull(f, 1), 1),
                                  buf, cmd, 0, ByteAt(buf, f.pos + 1)),
                              ByteAt(buf, f.pos), ByteAt(buf, f.pos + 1), cmd)} })
             : cmd \in {ase_get_cmd(ByteAt(buf, f.pos))} })

RECURSIVE print_ase_cp_rsp_loop(_, _, _, _)
print_ase_cp_rsp_loop(f, buf, i, num) ==
    IF ~(i < num /\ f.size # 0) THEN Res(f, <<>>)
    ELSE The({ IF ~r.ok THEN After(<<Field("ASE", i)>>, r)
               ELSE After(<<Field("ASE", i)>> \o r.ev,
                          print_ase_cp_rsp_loop(r.f, buf, i + 1, num))
             : r \in {get_fields(f, buf,
                          AseId \o <<Fixed("ASE Response Code", 1),
                                     Fixed("ASE Response Reason", 1)>>)} })

print_ase_cp_rsp(f, buf) ==
    IF ~CanPull(f, 1) THEN DumpRest(Fail(f, <<Err("opcode")>>))
    ELSE IF ~CanPull(l2cap_frame_pull(f, 1), 1)
    THEN DumpRest(Fail(l2cap_frame_pull(f, 1), <<Err("Number of ASE(s)")>>))
    ELSE The({ IF ~cmd.found
               THEN DumpRest(Res(l2cap_frame_pull(l2cap_frame_pull(f, 1), 1),
                                 <<Field("Opcode: Reserved", ByteAt(buf, f.pos))>>))
               ELSE DumpRest(ase_cp_head(
                        print_ase_cp_rsp_loop(
                            l2cap_frame_pull(l2cap_frame_pull(f, 1), 1),
                            buf, 0, ByteAt(buf, f.pos + 1)),
                        ByteAt(buf, f.pos), ByteAt(buf, f.pos + 1), cmd))
             : cmd \in {ase_get_cmd(ByteAt(buf, f.pos))} })

(***************************************************************************)
(* The functions the registry points to, called by name.  Calling "NULL"   *)
(* is a call through a NULL function pointer.                              *)
(***************************************************************************)
call_decoder(func, f, buf) ==
    CASE func \in {"ccc_read", "ccc_write"} -> print_ccc_value(f, buf)
      [] func \in {"ase_read", "ase_notify"} -> print_ase_status(f, buf)
      [] func = "ase_cp_write" -> print_ase_cmd(f, buf)
      [] func = "ase_cp_notify" -> print_ase_cp_rsp(f, buf)
      [] func \in {"pac_read", "pac_notify"} -> print_pac(f, buf)
      [] func \in {"pac_loc_read", "pac_loc_notify"} -> print_location(f)
      [] func \in {"pac_context_read", "pac_context_notify"} -> print_pac_context(f, buf)
      [] OTHER -> [Fail(f, <<>>) EXCEPT !.crash = TRUE]

(***************************************************************************)
(* The running call.  A handler works on a context cx:                     *)
(*   known   packet_get_conn_data(frame->handle) is non-NULL               *)
(*   d       conn->data of that connection                                 *)
(*   f       the frame att_packet built (handlers advance it in place)     *)
(*   ev      what was printed                                              *)
(*   shown   the attributes print_handle/print_attribute displayed         *)
(*   sel     the database choices of get_attribute: (in, rsp, db)          *)
(*   calls   the value decoders called, with the view each was given       *)
(*   ents    the entries of a multiple-variable-length PDU                 *)
(*   oob     a byte outside the PDU was read                               *)
(*   tbl     a slot outside a table was read                               *)
(*   crash   the process died                                              *)
(***************************************************************************)
Emit(cx, e) == [cx EXCEPT !.ev = Append(@, e)]

\* A read outside the PDU: it may fault (fault is the platform's choice) or
\* return bytes that are only printed.
Oob(cx, fault) == [cx EXCEPT !.oob = TRUE, !.crash = @ \/ fault]

\* A read past the end of a table of the program, likewise.
Outside(cx, fault) == [cx EXCEPT !.tbl = TRUE, !.crash = @ \/ fault]

\* Faulty variant of get_attribute: the direction of the frame is not
\* looked at.
get_attribute_any_dir(cx, handle, rsp) ==
    IF ~cx.known THEN [cx |-> cx, attr |-> NoAttr]
    ELSE LET db == IF rsp THEN "rdb" ELSE "ldb"
         IN  The({ [cx |-> [cx EXCEPT
                              !.d = data,
                              !.sel = Append(@, [in |-> cx.f.in, rsp |-> rsp,
                                                 db |-> db])],
                    attr |-> gatt_db_get_attribute(db,
                                IF db = "ldb" THEN data.ldb ELSE data.rdb,
                                handle)]
                 : data \in {load_gatt_db(cx.d)} })

\* The result is cx as load_gatt_db leaves it, and the attribute found.
get_attribute(cx, handle, rsp) ==
    IF ~cx.known THEN [cx |-> cx, attr |-> NoAttr]
    ELSE LET db == IF cx.f.in
                   THEN (IF rsp THEN "rdb" ELSE "ldb")
                   ELSE (IF rsp THEN "ldb" ELSE "rdb")
         IN  The({ [cx |-> [cx EXCEPT
                              !.d = data,
                              !.sel = Append(@, [in |-> cx.f.in, rsp |-> rsp,
                                                 db |-> db])],
                    attr |-> gatt_db_get_attribute(db,
                                IF db = "ldb" THEN data.ldb ELSE data.rdb,
                                handle)]
                 : data \in {load_gatt_db(cx.d)} })

print_handle(cx, handle, rsp) ==
    The({ IF r.attr = NoAttr
          THEN Emit([r.cx EXCEPT !.shown = Append(@, NoAttr)], Field("Handle", handle))
          ELSE Emit([r.cx EXCEPT !.shown = Append(@, r.attr)],
                    Field("Attribute", handle))
        : r \in {get_attribute(cx, handle, rsp)} })

\* Runs the decoder func of attribute attr on view; shared tells that view
\* is the frame of the caller itself, which the decoder then advances.
CallDecoder(cx, kind, func, attr, view, shared, buf, fault) ==
    The({ The({ IF r.oob /\ ~r.crash THEN Outside(c1, fault) ELSE c1
              : c1 \in {[cx EXCEPT
                           !.ev = @ \o r.ev,
                           !.calls = Append(@, [kind |-> kind, func |-> func,
                                                attr |-> attr,
                                                pos |-> view.pos,
                                                size |-> view.size,
                                                used |-> r.f.pos - view.pos,
                                                shared |-> shared]),
                           !.f = IF shared THEN r.f ELSE @,
                           !.crash = r.crash]} })
        : r \in {call_decoder(func, view, buf)} })

(***************************************************************************)
(* Read Request and Read Response.                                         *)
(***************************************************************************)
att_read(attr, in, chan, func) ==
    [attr |-> attr, in |-> in, chan |-> chan, func |-> func]

queue_push_tail(queue, entry) == Append(queue, entry)

\* Faulty variant of att_read_req: handler->read is not looked at.
att_read_req_any_handler(cx, buf) ==
    The({ The({ IF r.attr = NoAttr THEN r.cx
                ELSE IF get_handler(r.attr) = NoHandler THEN r.cx
                ELSE [r.cx EXCEPT
                        !.d.queue = TRUE,
                        !.d.reads = queue_push_tail(@,
                                      att_read(r.attr, r.cx.f.in, r.cx.f.chan,
                                               get_handler(r.attr).read))]
              : r \in {get_attribute(c1, get_le16(buf, cx.f.pos), FALSE)} })
        : c1 \in {print_handle([cx EXCEPT !.f = l2cap_frame_pull(@, 2)],
                               get_le16(buf, cx.f.pos), FALSE)} })

att_read_req(cx, buf) ==
    The({ The({ IF r.attr = NoAttr THEN r.cx
                ELSE IF get_handler(r.attr) = NoHandler
                        \/ get_handler(r.attr).read = "NULL" THEN r.cx
                ELSE [r.cx EXCEPT
                        !.d.queue = TRUE,
                        !.d.reads = queue_push_tail(@,
                                      att_read(r.attr, r.cx.f.in, r.cx.f.chan,
                                               get_handler(r.attr).read))]
              : r \in {get_attribute(c1, get_le16(buf, cx.f.pos), FALSE)} })
        : c1 \in {print_handle([cx EXCEPT !.f = l2cap_frame_pull(@, 2)],
                               get_le16(buf, cx.f.pos), FALSE)} })

\* Faulty variants of match_read_frame, which the properties of read
\* correlation must tell from it: one compares no channel, the other no
\* direction.
match_read_frame_any_chan(read, frame) == read.in # frame.in

match_read_frame_any_dir(read, frame) == read.chan = frame.chan

match_read_frame(read, frame) ==
    IF read.in = frame.in THEN FALSE
    ELSE read.chan = frame.chan

\* The position queue_remove_if removes when it is given match_read_frame:
\* the first entry match_read_frame accepts, 0 when there is none.
queue_find(queue, match_data) ==
    LET hits == {i \in DOMAIN queue : match_read_frame(queue[i], match_data)}
    IN  IF hits = {} THEN 0 ELSE CHOOSE i \in hits : \A j \in hits : i <= j

queue_remove(queue, i) ==
    [j \in 1 .. (Len(queue) - 1) |-> IF j < i THEN queue[j] ELSE queue[j + 1]]

att_read_rsp(cx, buf, fault) ==
    The({ IF ~c1.known THEN c1
          ELSE IF ~c1.d.present
          THEN [c1 EXCEPT !.crash = TRUE]      \* data->reads with data NULL
          ELSE The({ IF i = 0 THEN c1
                     ELSE CallDecoder(
                            Emit([c1 EXCEPT !.d.reads = queue_remove(@, i),
                                            !.shown = Append(@, c1.d.reads[i].attr)],
                                 Field("Attribute", c1.d.reads[i].attr.handle)),
                            "read", c1.d.reads[i].func, c1.d.reads[i].attr,
                            c1.f, TRUE, buf, fault)
                   : i \in {queue_find(c1.d.reads, c1.f)} })
        : c1 \in {Emit(cx, Hex("Value", cx.f.size))} })

(***************************************************************************)
(* Writes.                                                                 *)
(***************************************************************************)
print_write(cx, handle, len, buf, fault) ==
    The({ IF len > c1.f.size THEN Emit(c1, Err("invalid size"))
          ELSE The({ IF r.attr = NoAttr THEN r.cx
                     ELSE IF get_handler(r.attr) = NoHandler THEN r.cx
                     ELSE CallDecoder(r.cx, "write", get_handler(r.attr).write,
                                      r.attr, r.cx.f, TRUE, buf, fault)
                   : r \in {get_attribute(c1, handle, FALSE)} })
        : c1 \in {Emit(print_handle(cx, handle, FALSE), Hex("Data", cx.f.size))} })

\* att_write_req and att_write_command
att_write_req(cx, buf, fault) ==
    IF ~CanPull(cx.f, 2) THEN Emit(cx, Err("invalid size"))
    ELSE The({ print_write(c1, get_le16(buf, cx.f.pos), c1.f.size, buf, fault)
             : c1 \in {[cx EXCEPT !.f = l2cap_frame_pull(@, 2)]} })

att_signed_write_command(cx, buf, fault) ==
    IF ~CanPull(cx.f, 2) THEN Emit(cx, Err("invalid size"))
    ELSE The({ The({ IF c2.crash THEN c2
                     ELSE IF c2.f.size < 12  \* size - 12 wraps: the dump leaves the PDU
                     THEN Oob(c2, fault)
                     ELSE Emit(Emit(c2, Hex("Data", c2.f.size - 12)),
                               Hex("Signature", 12))
                   : c2 \in {print_write(c1, get_le16(buf, cx.f.pos),
                                         c1.f.size - 12, buf, fault)} })
             : c1 \in {[cx EXCEPT !.f = l2cap_frame_pull(@, 2)]} })

(***************************************************************************)
(* Notifications, indications and multiple-variable-length PDUs.           *)
(***************************************************************************)
\* Faulty variant of print_notify: the clone keeps the size of the frame.
print_notify_whole_frame(cx, handle, len, buf, fault) ==
    The({ IF c2.crash THEN c2
          ELSE IF len > c2.f.size THEN Emit(c2, Err("invalid size"))
          ELSE The({ IF r.attr = NoAttr THEN r.cx
                     ELSE IF get_handler(r.attr) = NoHandler THEN r.cx
                     ELSE CallDecoder(r.cx, "notify", get_handler(r.attr).notify,
                                      r.attr,
                                      IF len # r.cx.f.size
                                      THEN r.cx.f
                                      ELSE r.cx.f,
                                      len = r.cx.f.size, buf, fault)
                   : r \in {get_attribute(c2, handle, TRUE)} })
        : c2 \in { The({ IF len > c1.f.size THEN Oob(c1, fault) ELSE c1
                       : c1 \in {Emit(print_handle(cx, handle, FALSE),
                                      Hex("Data", len))} }) } })

print_notify(cx, handle, len, buf, fault) ==
    The({ IF c2.crash THEN c2
          ELSE IF len > c2.f.size THEN Emit(c2, Err("invalid size"))
          ELSE The({ IF r.attr = NoAttr THEN r.cx
                     ELSE IF get_handler(r.attr) = NoHandler THEN r.cx
                     ELSE CallDecoder(r.cx, "notify", get_handler(r.attr).notify,
                                      r.attr,
                                      IF len # r.cx.f.size
                                      THEN [r.cx.f EXCEPT !.size = len]  \* the clone
                                      ELSE r.cx.f,
                                      len = r.cx.f.size, buf, fault)
                   : r \in {get_attribute(c2, handle, TRUE)} })
        : c2 \in { The({ IF len > c1.f.size THEN Oob(c1, fault) ELSE c1
                       : c1 \in {Emit(print_handle(cx, handle, FALSE),
                                      Hex("Data", len))} }) } })

\* att_handle_value_notify and att_handle_value_ind
att_handle_value_notify(cx, buf, fault) ==
    The({ print_notify(c1, get_le16(buf, cx.f.pos), c1.f.size, buf, fault)
        : c1 \in {[cx EXCEPT !.f = l2cap_frame_pull(@, 2)]} })

\* Faulty variant of att_multiple_vl_rsp: the length of an entry is read
\* without being consumed.
RECURSIVE att_multiple_vl_rsp_short_header(_, _, _)
att_multiple_vl_rsp_short_header(cx, buf, fault) ==
    IF cx.crash \/ cx.f.size = 0 THEN cx
    ELSE IF ~CanPull(cx.f, 2) THEN cx
    ELSE IF ~CanPull(l2cap_frame_pull(cx.f, 2), 2)
    THEN [cx EXCEPT !.f = l2cap_frame_pull(@, 2)]
    ELSE The({ IF c3.crash THEN c3
               ELSE The({ att_multiple_vl_rsp_short_header(c5, buf, fault)
                        : c5 \in {[c3 EXCEPT
                                     !.f = l2cap_frame_pull(@, get_le16(buf, cx.f.pos + 2)),
                                     !.ents = Append(@,
                                        [start |-> cx.f.pos,
                                         handle |-> get_le16(buf, cx.f.pos),
                                         len |-> get_le16(buf, cx.f.pos + 2),
                                         left |-> cx.f.size - 4,
                                         calls |-> Len(c3.calls),
                                         end |-> l2cap_frame_pull(c3.f,
                                                   get_le16(buf, cx.f.pos + 2)).pos])]} })
             : c3 \in {print_notify(
                          Emit([cx EXCEPT
                                  !.f = l2cap_frame_pull(@, 2)],
                               Field("Length", get_le16(buf, cx.f.pos + 2))),
                          get_le16(buf, cx.f.pos), get_le16(buf, cx.f.pos + 2),
                          buf, fault)} })

\* One entry of the loop of att_multiple_vl_rsp is recorded in ents: where
\* its header starts, its handle and length, the bytes left after the
\* header, the decoder calls made so far, and where the cursor stands when
\* the iteration ends.
RECURSIVE att_multiple_vl_rsp(_, _, _)
att_multiple_vl_rsp(cx, buf, fault) ==
    IF cx.crash \/ cx.f.size = 0 THEN cx
    ELSE IF ~CanPull(cx.f, 2) THEN cx
    ELSE IF ~CanPull(l2cap_frame_pull(cx.f, 2), 2)
    THEN [cx EXCEPT !.f = l2cap_frame_pull(@, 2)]
    ELSE The({ IF c3.crash THEN c3
               ELSE The({ att_multiple_vl_rsp(c5, buf, fault)
                        : c5 \in {[c3 EXCEPT
                                     !.f = l2cap_frame_pull(@, get_le16(buf, cx.f.pos + 2)),
                                     !.ents = Append(@,
                                        [start |-> cx.f.pos,
                                         handle |-> get_le16(buf, cx.f.pos),
                                         len |-> get_le16(buf, cx.f.pos + 2),
                                         left |-> cx.f.size - 4,
                                         calls |-> Len(c3.calls),
                                         end |-> l2cap_frame_pull(c3.f,
                                                   get_le16(buf, cx.f.pos + 2)).pos])]} })
             : c3 \in {print_notify(
                          Emit([cx EXCEPT
                                  !.f = l2cap_frame_pull(l2cap_frame_pull(@, 2), 2)],
                               Field("Length", get_le16(buf, cx.f.pos + 2))),
                          get_le16(buf, cx.f.pos), get_le16(buf, cx.f.pos + 2),
                          buf, fault)} })

(***************************************************************************)
(* Handlers that resolve handles but decode no attribute value.            *)
(***************************************************************************)
\* Faulty variant of att_read_blob_req: the request is queued like a Read
\* Request.
att_read_blob_req_queued(cx, buf) == att_read_req(cx, buf)

att_read_blob_req(cx, buf) ==
    Emit(print_handle(cx, get_le16(buf, cx.f.pos), FALSE), Field("Offset", 0))

RECURSIVE att_read_multiple_loop(_, _, _, _)
att_read_multiple_loop(cx, buf, i, count) ==
    IF i >= count THEN cx
    ELSE The({ att_read_multiple_loop(c1, buf, i + 1, count)
             : c1 \in {print_handle(cx, get_le16(buf, cx.f.pos + i * 2), FALSE)} })

att_read_multiple_req(cx, buf) ==
    att_read_multiple_loop(cx, buf, 0, cx.f.size \div 2)

att_prepare_write_req(cx, buf) ==
    Emit(Emit(print_handle(cx, get_le16(buf, cx.f.pos), FALSE), Field("Offset", 0)),
         Hex("Data", cx.f.size - 4))

att_prepare_write_rsp(cx, buf) ==
    Emit(Emit(print_handle(cx, get_le16(buf, cx.f.pos), TRUE), Field("Offset", 0)),
         Hex("Data", cx.f.size - 4))

(***************************************************************************)
(* Attribute data lists: length is the per-entry length byte, hdr the      *)
(* width of the handle part (2 in print_data_list, 4 in print_group_list). *)
(* An entry shorter than its handle part makes the width of the value      *)
(* part wrap, and the value dump then leaves the PDU.                      *)
(***************************************************************************)
print_list(cx, buf, hdr, fault) ==
    IF ByteAt(buf, cx.f.pos) = 0
    THEN Emit(cx, Field("Attribute data length", 0))
    ELSE The({ IF cx.f.size - 1 >= ByteAt(buf, cx.f.pos) /\ ByteAt(buf, cx.f.pos) < hdr
               THEN Oob(c2, fault)
               ELSE Emit(c2, Hex("", (cx.f.size - 1) % ByteAt(buf, cx.f.pos)))
             : c2 \in {Emit(Emit(cx, Field("Attribute data length",
                                           ByteAt(buf, cx.f.pos))),
                            Field("entries",
                                  (cx.f.size - 1) \div ByteAt(buf, cx.f.pos)))} })

att_read_type_rsp(cx, buf, fault) == print_list(cx, buf, 2, fault)

att_read_group_type_rsp(cx, buf, fault) == print_list(cx, buf, 4, fault)

(***************************************************************************)
(* The opcode table and att_packet.                                        *)
(***************************************************************************)
Op(opcode, str, func, size, fixed) ==
    [opcode |-> opcode, str |-> str, func |-> func, size |-> size, fixed |-> fixed]

att_opcode_table == <<
    Op(1, "Error Response", "att_error_response", 4, TRUE),
    Op(2, "Exchange MTU Request", "att_exchange_mtu_req", 2, TRUE),
    Op(3, "Exchange MTU Response", "att_exchange_mtu_rsp", 2, TRUE),
    Op(4, "Find Information Request", "att_find_info_req", 4, TRUE),
    Op(5, "Find Information Response", "att_find_info_rsp", 5, FALSE),
    Op(6, "Find By Type Value Request", "att_find_by_type_val_req", 6, FALSE),
    Op(7, "Find By Type Value Response", "att_find_by_type_val_rsp", 4, FALSE),
    Op(8, "Read By Type Request", "att_read_type_req", 6, FALSE),
    Op(9, "Read By Type Response", "att_read_type_rsp", 3, FALSE),
    Op(10, "Read Request", "att_read_req", 2, TRUE),
    Op(11, "Read Response", "att_read_rsp", 0, FALSE),
    Op(12, "Read Blob Request", "att_read_blob_req", 4, TRUE),
    Op(13, "Read Blob Response", "att_read_blob_rsp", 0, FALSE),
    Op(14, "Read Multiple Request", "att_read_multiple_req", 4, FALSE),
    Op(15, "Read Multiple Response", "NULL", 0, FALSE),
    Op(16, "Read By Group Type Request", "att_read_group_type_req", 6, FALSE),
    Op(17, "Read By Group Type Response", "att_read_group_type_rsp", 4, FALSE),
    Op(18, "Write Request", "att_write_req", 2, FALSE),
    Op(19, "Write Response", "att_write_rsp", 0, TRUE),
    Op(22, "Prepare Write Request", "att_prepare_write_req", 4, FALSE),
    Op(23, "Prepare Write Response", "att_prepare_write_rsp", 4, FALSE),
    Op(24, "Execute Write Request", "att_execute_write_req", 1, TRUE),
    Op(25, "Execute Write Response", "NULL", 0, FALSE),
    Op(27, "Handle Value Notification", "att_handle_value_notify", 2, FALSE),
    Op(29, "Handle Value Indication", "att_handle_value_ind", 2, FALSE),
    Op(30, "Handle Value Confirmation", "att_handle_value_conf", 0, TRUE),
    Op(32, "Read Multiple Request Variable Length", "att_read_multiple_req", 4, FALSE),
    Op(33, "Read Multiple Response Variable Length", "att_multiple_vl_rsp", 4, FALSE),
    Op(35, "Handle Multiple Value Notification", "att_multiple_vl_rsp", 4, FALSE),
    Op(82, "Write Command", "att_write_command", 2, FALSE),
    Op(210, "Signed Write Command", "att_signed_write_command", 14, FALSE) >>

\* The NULL opcode_data of a first byte the table does not have.
NoOp == Op(0, "Unknown", "NULL", 0, FALSE)

opcode_lookup(opcode) ==
    LET hits == {i \in DOMAIN att_opcode_table : att_opcode_table[i].opcode = opcode}
    IN  IF hits = {} THEN NoOp
        ELSE att_opcode_table[CHOOSE i \in hits : \A j \in hits : i <= j]

\* opcode_data->func(&frame)
call_handler(func, cx, buf, fault) ==
    CASE func = "att_read_req" -> att_read_req(cx, buf)
      [] func = "att_read_rsp" -> att_read_rsp(cx, buf, fault)
      [] func = "att_read_blob_req" -> att_read_blob_req(cx, buf)
      [] func = "att_read_multiple_req" -> att_read_multiple_req(cx, buf)
      [] func = "att_read_type_rsp" -> att_read_type_rsp(cx, buf, fault)
      [] func = "att_read_group_type_rsp" -> att_read_group_type_rsp(cx, buf, fault)
      [] func \in {"att_write_req", "att_write_command"} -> att_write_req(cx, buf, fault)
      [] func = "att_signed_write_command" -> att_signed_write_command(cx, buf, fault)
      [] func = "att_prepare_write_req" -> att_prepare_write_req(cx, buf)
      [] func = "att_prepare_write_rsp" -> att_prepare_write_rsp(cx, buf)
      [] func \in {"att_handle_value_notify", "att_handle_value_ind"} ->
            att_handle_value_notify(cx, buf, fault)
      [] func = "att_multiple_vl_rsp" -> att_multiple_vl_rsp(cx, buf, fault)
      [] func \in {"att_write_rsp", "att_handle_value_conf"} -> cx
      [] OTHER -> Emit(cx, Field(func, cx.f.size))  \* prints fields of the payload

\* Faulty variants of att_packet: one rejects a fixed-length PDU only when
\* it is shorter than the table says, the other takes a variable-length PDU
\* of any length.
att_packet_fixed_too_short(known, data, in, handle, cid, buf, fault) ==
    The({ The({ IF Len(buf) < 1
                THEN IF fault THEN Oob(cx0, TRUE)
                     ELSE Emit(Emit(Oob(cx0, FALSE), Err("malformed attribute packet")),
                               Hex("", Len(buf)))
                ELSE The({ IF opcode_data = NoOp \/ opcode_data.func = "NULL"
                           THEN Emit(cx2, Hex("", Len(buf) - 1))
                           ELSE IF opcode_data.fixed /\ Len(buf) - 1 < opcode_data.size
                           THEN Emit(Emit(cx2, Err("invalid size")),
                                     Hex("", Len(buf) - 1))
                           ELSE IF ~opcode_data.fixed /\ Len(buf) - 1 < opcode_data.size
                           THEN Emit(Emit(cx2, Err("too short packet")),
                                     Hex("", Len(buf) - 1))
                           ELSE The({ call_handler(opcode_data.func, cx3, buf, fault)
                                    : cx3 \in {[cx2 EXCEPT !.func = opcode_data.func]} })
                         : cx2 \in {Emit(cx0, Field(opcode_data.str, Len(buf) - 1))} })
              : cx0 \in {[known |-> known, d |-> data,
                          f |-> l2cap_frame_init(in, handle, cid, 1, Len(buf) - 1),
                          ev |-> <<>>, shown |-> <<>>, sel |-> <<>>, calls |-> <<>>,
                          ents |-> <<>>, oob |-> FALSE, tbl |-> FALSE,
                          crash |-> FALSE, func |-> "none"]} })
        : opcode_data \in {opcode_lookup(ByteAt(buf, 0))} })

att_packet_no_minimum(known, data, in, handle, cid, buf, fault) ==
    The({ The({ IF Len(buf) < 1
                THEN IF fault THEN Oob(cx0, TRUE)
                     ELSE Emit(Emit(Oob(cx0, FALSE), Err("malformed attribute packet")),
                               Hex("", Len(buf)))
                ELSE The({ IF opcode_data = NoOp \/ opcode_data.func = "NULL"
                           THEN Emit(cx2, Hex("", Len(buf) - 1))
                           ELSE IF opcode_data.fixed /\ Len(buf) - 1 # opcode_data.size
                           THEN Emit(Emit(cx2, Err("invalid size")),
                                     Hex("", Len(buf) - 1))
                           ELSE IF FALSE
                           THEN Emit(Emit(cx2, Err("too short packet")),
                                     Hex("", Len(buf) - 1))
                           ELSE The({ call_handler(opcode_data.func, cx3, buf, fault)
                                    : cx3 \in {[cx2 EXCEPT !.func = opcode_data.func]} })
                         : cx2 \in {Emit(cx0, Field(opcode_data.str, Len(buf) - 1))} })
              : cx0 \in {[known |-> known, d |-> data,
                          f |-> l2cap_frame_init(in, handle, cid, 1, Len(buf) - 1),
                          ev |-> <<>>, shown |-> <<>>, sel |-> <<>>, calls |-> <<>>,
                          ents |-> <<>>, oob |-> FALSE, tbl |-> FALSE,
                          crash |-> FALSE, func |-> "none"]} })
        : opcode_data \in {opcode_lookup(ByteAt(buf, 0))} })

\* Faulty variant of att_packet: an opcode of the table without a handler is
\* dispatched like one that has a handler.
att_packet_null_handler(known, data, in, handle, cid, buf, fault) ==
    The({ The({ IF Len(buf) < 1
                THEN IF fault THEN Oob(cx0, TRUE)
                     ELSE Emit(Emit(Oob(cx0, FALSE), Err("malformed attribute packet")),
                               Hex("", Len(buf)))
                ELSE The({ IF opcode_data = NoOp
                           THEN Emit(cx2, Hex("", Len(buf) - 1))
                           ELSE IF opcode_data.fixed /\ Len(buf) - 1 # opcode_data.size
                           THEN Emit(Emit(cx2, Err("invalid size")),
                                     Hex("", Len(buf) - 1))
                           ELSE IF ~opcode_data.fixed /\ Len(buf) - 1 < opcode_data.size
                           THEN Emit(Emit(cx2, Err("too short packet")),
                                     Hex("", Len(buf) - 1))
                           ELSE The({ call_handler(opcode_data.func, cx3, buf, fault)
                                    : cx3 \in {[cx2 EXCEPT !.func = opcode_data.func]} })
                         : cx2 \in {Emit(cx0, Field(opcode_data.str, Len(buf) - 1))} })
              : cx0 \in {[known |-> known, d |-> data,
                          f |-> l2cap_frame_init(in, handle, cid, 1, Len(buf) - 1),
                          ev |-> <<>>, shown |-> <<>>, sel |-> <<>>, calls |-> <<>>,
                          ents |-> <<>>, oob |-> FALSE, tbl |-> FALSE,
                          crash |-> FALSE, func |-> "none"]} })
        : opcode_data \in {opcode_lookup(ByteAt(buf, 0))} })

\* att_packet(index, in, handle, cid, data, size) with data = buf and
\* size = Len(buf), on a connection whose conn->data is data.  The opcode
\* byte is read before size is looked at.
att_packet(known, data, in, handle, cid, buf, fault) ==
    The({ The({ IF Len(buf) < 1
                THEN IF fault THEN Oob(cx0, TRUE)
                     ELSE Emit(Emit(Oob(cx0, FALSE), Err("malformed attribute packet")),
                               Hex("", Len(buf)))
                ELSE The({ IF opcode_data = NoOp \/ opcode_data.func = "NULL"
                           THEN Emit(cx2, Hex("", Len(buf) - 1))
                           ELSE IF opcode_data.fixed /\ Len(buf) - 1 # opcode_data.size
                           THEN Emit(Emit(cx2, Err("invalid size")),
                                     Hex("", Len(buf) - 1))
                           ELSE IF ~opcode_data.fixed /\ Len(buf) - 1 < opcode_data.size
                           THEN Emit(Emit(cx2, Err("too short packet")),
                                     Hex("", Len(buf) - 1))
                           ELSE The({ call_handler(opcode_data.func, cx3, buf, fault)
                                    : cx3 \in {[cx2 EXCEPT !.func = opcode_data.func]} })
                         : cx2 \in {Emit(cx0, Field(opcode_data.str, Len(buf) - 1))} })
              : cx0 \in {[known |-> known, d |-> data,
                          f |-> l2cap_frame_init(in, handle, cid, 1, Len(buf) - 1),
                          ev |-> <<>>, shown |-> <<>>, sel |-> <<>>, calls |-> <<>>,
                          ents |-> <<>>, oob |-> FALSE, tbl |-> FALSE,
                          crash |-> FALSE, func |-> "none"]} })
        : opcode_data \in {opcode_lookup(ByteAt(buf, 0))} })

\* att_conn_data_free: the databases and the queue go with the connection.
att_conn_data_free(data) == NoData

(***************************************************************************)
(* The state machine.                                                      *)
(***************************************************************************)
Pdu(in, handle, cid, buf) == [in |-> in, handle |-> handle, cid |-> cid, buf |-> buf]

NoPdu == Pdu(FALSE, 0, 0, <<>>)

\* out before any call, and after a connection event.
NoOut(kind) ==
    [kind |-> kind, pdu |-> NoPdu, known |-> FALSE,
     f |-> l2cap_frame_init(FALSE, 0, 0, 0, 0),
     ev |-> <<>>, shown |-> <<>>, sel |-> <<>>, calls |-> <<>>, ents |-> <<>>,
     oob |-> FALSE, tbl |-> FALSE, crash |-> FALSE, func |-> "none"]

\* packet_get_conn_data(handle)->data: the data of the connection that has
\* this handle, and of no other.
packet_get_conn_data(handle) ==
    IF handle \in conns THEN att_data[handle] ELSE NoData

\* Faulty variant of Call: the handlers ask for the data of the first
\* connection of the trace instead of the connection of the frame.
Call_first_connection(p, fault) ==
    att_packet(p.handle \in conns,
               IF p.handle \in conns
               THEN packet_get_conn_data(CHOOSE c \in conns : \A o \in conns : c <= o)
               ELSE NoData,
               p.in, p.handle, p.cid, p.buf, fault)

\* The handlers of the call get the data of the connection frame->handle
\* names.
Call(p, fault) ==
    att_packet(p.handle \in conns, packet_get_conn_data(p.handle),
               p.in, p.handle, p.cid, p.buf, fault)

\* The trace delivers PDU p and att_packet decodes it.  A Read Request is
\* not delivered while the queue of its connection holds MaxQueue reads.
\* Where the call reads outside the PDU or outside a table, both outcomes
\* are taken: the platform lets such reads through, or it faults them.
Deliver(p) ==
    /\ ~crashed
    /\ ~(p.handle \in conns /\ Len(p.buf) > 0 /\ p.buf[1] = 10
         /\ Len(att_data[p.handle].reads) >= MaxQueue)
    /\ \E r0 \in {Call(p, FALSE)} :
         \E r \in (IF r0.oob \/ r0.tbl THEN {r0, Call(p, TRUE)} ELSE {r0}) :
             /\ att_data' = IF p.handle \in conns
                            THEN [att_data EXCEPT ![p.handle] = r.d]
                            ELSE att_data
             /\ out' = [kind |-> "pdu", pdu |-> p, known |-> r.known, f |-> r.f,
                        ev |-> r.ev, shown |-> r.shown, sel |-> r.sel,
                        calls |-> r.calls, ents |-> r.ents, oob |-> r.oob,
                        tbl |-> r.tbl,
                        crash |-> r.crash, func |-> r.func]
             /\ crashed' = r.crash
    /\ UNCHANGED conns

\* A connection appears in the trace: its conn->data is NULL.
ConnNew(c) ==
    /\ ~crashed
    /\ c \notin conns
    /\ conns' = conns \cup {c}
    /\ att_data' = [att_data EXCEPT ![c] = NoData]
    /\ out' = NoOut("new")
    /\ UNCHANGED <<crashed, pending>>

\* The connection goes away: conn->destroy(conn->data).
ConnDestroy(c) ==
    /\ ~crashed
    /\ c \in conns
    /\ conns' = conns \ {c}
    /\ att_data' = [att_data EXCEPT ![c] = att_conn_data_free(@)]
    /\ out' = NoOut("destroy")
    /\ UNCHANGED <<crashed, pending>>

InitCommon ==
    /\ conns = {}
    /\ att_data = [c \in ConnHandles |-> NoData]
    /\ out = NoOut("none")
    /\ crashed = FALSE

(***************************************************************************)
(* Read correlation: Read Requests and Read Responses of both directions   *)
(* and channels on one connection, among PDUs of the other kinds, and the  *)
(* same PDUs with the handle of a connection the trace never opened.       *)
(***************************************************************************)
Tracked == {1}

ReadReq(h) == <<10, h, 0>>

ReadRsps == {<<11>>, <<11, 1, 0, 0, 0, 0>>}

OtherData ==
    { <<>>, <<255, 1>>, <<15, 1, 0>>, <<10, 1>>, <<1, 10, 1, 0, 10>>,
      <<12, 1, 0, 0, 0>>, <<13, 1>>, <<8, 1, 0, 5, 0, 0, 40>>,
      <<9, 3, 1, 0, 0>>, <<14, 1, 0, 2, 0>>, <<18, 1, 0, 1>>,
      <<82, 3, 0, 1, 1, 1>>, <<22, 1, 0, 0, 0, 1>>, <<23, 1, 0, 0, 0, 1>>,
      <<27, 2, 0, 0, 0, 0, 0>>, <<29, 1, 0, 0, 0, 0, 0>>, <<30>>,
      <<35, 2, 0, 1, 0, 7>> }

ReadPdus ==
    {Pdu(TRUE, 1, 1, ReadReq(h)) : h \in DbHandles}
    \cup {Pdu(FALSE, 1, 1, ReadReq(h)) : h \in {1, 4}}
    \cup {Pdu(TRUE, 1, 2, ReadReq(1))}
    \cup {Pdu(in, 1, cid, buf) : in \in BOOLEAN, cid \in Chans, buf \in ReadRsps}
    \cup {Pdu(in, 1, 1, buf) : in \in BOOLEAN, buf \in OtherData}
    \cup {Pdu(in, 2, 1, buf) : in \in BOOLEAN, buf \in {ReadReq(1), <<11, 1>>}}

Init == InitCommon /\ pending = NoPdu

Receive == \E p \in ReadPdus : Deliver(p) /\ UNCHANGED pending

Connect == \E c \in Tracked : ConnNew(c)

Disconnect == \E c \in Tracked : ConnDestroy(c)

Next == Receive \/ Connect \/ Disconnect

Spec == Init /\ [][Next]_vars

(***************************************************************************)
(* Dispatch: one PDU of every opcode of the table and of some opcodes the  *)
(* table does not have, with payloads around the size the table declares,  *)
(* and the PDU of no bytes.  The PDU is decoded on a connection that is    *)
(* unknown, new, or has seen Read Requests before.                         *)
(***************************************************************************)
Payload(n) == [i \in 1 .. n |-> IF i = 1 THEN 1 ELSE 0]

Bytes(n) == [i \in 1 .. n |-> 0]

Opcodes == {att_opcode_table[i].opcode : i \in DOMAIN att_opcode_table}

UnknownOpcodes == {0, 20, 255}

PayloadSizes(opcode) ==
    {n \in {0, opcode_lookup(opcode).size - 1, opcode_lookup(opcode).size,
            opcode_lookup(opcode).size + 1} : n >= 0}

\* Attribute data lists: every per-entry length around the two headers,
\* followed by no, some or several entries' worth of bytes.
ListLengths == 0 .. 6

ListPdus ==
    {Pdu(TRUE, 1, 1, <<o, len>> \o Bytes(n)) :
        o \in {9, 17}, len \in ListLengths, n \in {0, 1, 3, 4, 8}}

DispatchPdus ==
    UNION {{Pdu(in, 1, 1, <<o>> \o Payload(n)) : in \in BOOLEAN, n \in PayloadSizes(o)}
           : o \in Opcodes \cup UnknownOpcodes}
    \cup {Pdu(in, 1, 1, <<>>) : in \in BOOLEAN}
    \cup ListPdus

\* The PDU drawn by Init is decoded.
DecodePending ==
    /\ pending # NoPdu
    /\ Deliver(pending)
    /\ pending' = NoPdu

\* A Read Request that precedes the PDU drawn by Init.
Prime ==
    /\ pending # NoPdu
    /\ \E in \in BOOLEAN : Deliver(Pdu(in, 1, 1, ReadReq(1)))
    /\ UNCHANGED pending

InitDispatch == InitCommon /\ pending \in DispatchPdus

NextDispatch == Connect \/ Prime \/ DecodePending

SpecDispatch == InitDispatch /\ [][NextDispatch]_vars

(***************************************************************************)
(* Multiple-variable-length PDUs (opcodes 0x21 and 0x23) on a connection   *)
(* that is known: a first entry of any handle and any declared length,     *)
(* followed by up to MaxValue bytes.                                       *)
(***************************************************************************)
RECURSIVE Tails(_)
Tails(n) ==
    IF n = 0 THEN {<<>>}
    ELSE Tails(n - 1) \cup {Append(t, b) : t \in {u \in Tails(n - 1) : Len(u) = n - 1},
                                            b \in {0, 1}}

VlPdus ==
    {Pdu(in, 1, 1, <<o, h, 0, len, 0>> \o t) :
        in \in BOOLEAN, o \in {33, 35}, h \in DbHandles,
        len \in 0 .. MaxValue + 1, t \in Tails(MaxValue)}

InitVL ==
    /\ conns = Tracked
    /\ att_data = [c \in ConnHandles |-> NoData]
    /\ out = NoOut("none")
    /\ crashed = FALSE
    /\ pending \in VlPdus

NextVL == DecodePending

SpecVL == InitVL /\ [][NextVL]_vars

(***************************************************************************)
(* Two connections: Read Requests and Read Responses of one channel, in    *)
(* both directions, interleaved in any order on the connections 1 and 2,   *)
(* which appear and go away at any time.                                   *)
(***************************************************************************)
TwoPdus ==
    {Pdu(in, c, 1, buf) :
        in \in BOOLEAN, c \in ConnHandles,
        buf \in {ReadReq(1), ReadReq(2), <<11>>, <<11, 1, 0, 0, 0, 0>>}}

ReceiveAny == \E p \in TwoPdus : Deliver(p) /\ UNCHANGED pending

ConnectAny == \E c \in ConnHandles : ConnNew(c)

DisconnectAny == \E c \in ConnHandles : ConnDestroy(c)

NextTwo == ReceiveAny \/ ConnectAny \/ DisconnectAny

SpecTwo == Init /\ [][NextTwo]_vars

(***************************************************************************)
(* One request at a time: on channel 1 of connection 1 a Read Request of   *)
(* either direction is followed by its one answer, a Read Response or an   *)
(* Error Response of the other direction, before the next Read Request.    *)
(* pending holds the Read Request that waits for its answer.               *)
(***************************************************************************)
SerialRequests ==
    {Pdu(in, 1, 1, ReadReq(h)) : in \in BOOLEAN, h \in DbHandles}

\* The answers to request req: a Read Response with one byte of value, and
\* an Error Response (Read Request, handle of the request, Read Not
\* Permitted under its code 0x02).
Answers(req) ==
    {Pdu(~req.in, 1, 1, buf) : buf \in {<<11, 1>>, <<1, 10, req.buf[2], 0, 2>>}}

Request ==
    /\ pending = NoPdu
    /\ \E p \in SerialRequests : Deliver(p) /\ pending' = p

Answer ==
    /\ pending # NoPdu
    /\ \E p \in Answers(pending) : Deliver(p)
    /\ pending' = NoPdu

NextSerial == Request \/ Answer \/ Connect

SpecSerial == Init /\ [][NextSerial]_vars

(***************************************************************************)
(* Value decoders on their own: a decoder of the registry is handed a      *)
(* frame that holds one attribute value, as att_read_rsp, print_write and  *)
(* print_notify hand it the value of a PDU.  Offsets are offsets into the  *)
(* value.                                                                  *)
(***************************************************************************)
Value(func, buf) == [func |-> func, buf |-> buf]

\* Control point values: every opcode byte around the command table, counts
\* up to 3, and short bodies.
AseOps == 0 .. 10
AseCounts == 0 .. 3
AseBodyLen == 5

AseCpValues ==
    {Value(func, <<op, num>> \o t) :
        func \in {"ase_cp_write", "ase_cp_notify"},
        op \in AseOps, num \in AseCounts, t \in Tails(AseBodyLen)}
    \cup {Value(func, t) : func \in {"ase_cp_write", "ase_cp_notify"},
                           t \in {<<>>, <<4>>}}

\* ASE status values: an ASE ID, a state byte, and a short payload.
AseStates == (0 .. 8) \cup {255}
AsePayloadLen == 3

AseStatusValues ==
    {Value("ase_read", <<1, state>> \o t) :
        state \in AseStates, t \in Tails(AsePayloadLen)}
    \cup {Value("ase_notify", t) : t \in {<<>>, <<1>>, <<1, 7, 1, 1>>}}

\* PAC values.  A whole PAC record is a codec (5 bytes), the codec specific
\* capabilities and the metadata, each a length byte and that many bytes.
WholePac == <<6, 0, 0, 0, 0>> \o <<2, 0, 0>> \o <<1, 0>>

RECURSIVE WholePacs(_)
WholePacs(n) == IF n = 0 THEN <<>> ELSE WholePac \o WholePacs(n - 1)

\* A PAC value of num records, of which the first whole are whole and the
\* next is cut in its capabilities (md = FALSE) or in its metadata
\* (md = TRUE): the length byte says declared and left bytes follow.
CutPac(num, whole, md, declared, left) ==
    <<num>> \o WholePacs(whole) \o <<6, 0, 0, 0, 0>>
    \o (IF md THEN <<2, 0, 0>> ELSE <<>>) \o <<declared>> \o Bytes(left)

CutLengths == {1, 5, 10}
MaxLeft == 4
MaxWhole == 2

\* The cuts: more is how many records the count announces beyond the whole
\* ones, and fewer bytes are left than the length byte declares.
PacCuts ==
    {c \in [whole : 0 .. MaxWhole, more : 1 .. 2, md : BOOLEAN,
            declared : CutLengths, left : 0 .. MaxLeft] : c.left < c.declared}

PacValues ==
    {Value("pac_read",
           CutPac(c.whole + c.more, c.whole, c.md, c.declared, c.left)) :
        c \in PacCuts}
    \cup {Value("pac_notify", <<num>> \o WholePacs(whole) \o Bytes(left)) :
            num \in 0 .. MaxWhole, whole \in 0 .. MaxWhole, left \in 0 .. 1}

\* Bitfield values: every CCC byte, alone or followed by a byte, and
\* context pairs whose bytes have no, some, the top or all bits set.
CccValues ==
    {Value(func, <<v>> \o t) :
        func \in {"ccc_read", "ccc_write"}, v \in 0 .. 255, t \in {<<>>, <<0>>}}
    \cup {Value("ccc_read", <<>>)}

ContextBytes == {0, 5, 128, 255}

ContextValues ==
    {Value("pac_context_read", <<a, b, c, d>>) :
        a \in ContextBytes, b \in ContextBytes,
        c \in ContextBytes, d \in ContextBytes}
    \cup {Value("pac_context_notify", t) :
            t \in {<<>>, <<5>>, <<5, 128>>, <<5, 128, 1>>, <<5, 128, 1, 0, 9>>}}

\* Metadata: one LTV record of every tag around the metadata table with two
\* bytes of value, alone or followed by a record of tag 2, as the metadata
\* of an Enable or Update Metadata command, of an ASE in the states
\* Enabling, Streaming and Disabling, and of a PAC record whose capabilities
\* hold a record of the same tag.
MetadataTags == 0 .. 6

Record(tag) == <<3, tag, 0, 0>>

Records(tag, two) == IF two THEN Record(tag) \o Record(2) ELSE Record(tag)

MetadataValues ==
    {Value("ase_cp_write",
           <<op, 1, 1, Len(Records(tag, two))>> \o Records(tag, two)) :
        op \in {3, 7}, tag \in MetadataTags, two \in BOOLEAN}
    \cup {Value("ase_read",
                <<1, state, 0, 0, Len(Records(tag, two))>> \o Records(tag, two)) :
            state \in {3, 4, 5}, tag \in MetadataTags, two \in BOOLEAN}
    \cup {Value("pac_read",
                <<1, 6, 0, 0, 0, 0, 4>> \o Record(tag)
                \o <<Len(Records(tag, two))>> \o Records(tag, two)) :
            tag \in MetadataTags, two \in BOOLEAN}

DecodeValues ==
    AseCpValues \cup AseStatusValues \cup PacValues \cup CccValues
    \cup ContextValues \cup MetadataValues

\* The context of a decoder that is called on a value of its own.
ValueCx(buf) ==
    [known |-> FALSE, d |-> NoData,
     f |-> l2cap_frame_init(FALSE, 0, 0, 0, Len(buf)),
     ev |-> <<>>, shown |-> <<>>, sel |-> <<>>, calls |-> <<>>,
     ents |-> <<>>, oob |-> FALSE, tbl |-> FALSE,
     crash |-> FALSE, func |-> "none"]

DecodeCall(v, fault) ==
    CallDecoder(ValueCx(v.buf), "value", v.func, NoAttr,
                l2cap_frame_init(FALSE, 0, 0, 0, Len(v.buf)), TRUE, v.buf, fault)

\* The decoder of the value drawn by Init runs on it.  Where it reads
\* outside a table, both outcomes are taken.
DecodeValue ==
    /\ ~crashed
    /\ pending # NoPdu
    /\ \E r0 \in {DecodeCall(pending, FALSE)} :
         \E r \in (IF r0.tbl THEN {r0, DecodeCall(pending, TRUE)} ELSE {r0}) :
             /\ out' = [kind |-> "value", pdu |-> pending, known |-> FALSE,
                        f |-> r.f, ev |-> r.ev, shown |-> r.shown, sel |-> r.sel,
                        calls |-> r.calls, ents |-> r.ents, oob |-> r.oob,
                        tbl |-> r.tbl, crash |-> r.crash, func |-> pending.func]
             /\ crashed' = r.crash
    /\ pending' = NoPdu
    /\ UNCHANGED <<conns, att_data>>

InitDecode == InitCommon /\ pending \in DecodeValues

NextDecode == DecodeValue

SpecDecode == InitDecode /\ [][NextDecode]_vars

(***************************************************************************)
(* Properties of read correlation and of database selection (Spec).        *)
(***************************************************************************)
\* A Read Request that passes length validation, and a Read Response.
ReadRequest(p) == Len(p.buf) = 3 /\ p.buf[1] = 10

ReadResponse(p) == Len(p.buf) >= 1 /\ p.buf[1] = 11

\* The positions of queue q a response p may consume: opposite direction,
\* equal channel.
Matches(q, p) == {i \in DOMAIN q : q[i].in # p.in /\ q[i].chan = p.cid}

Without(q, i) == SubSeq(q, 1, i - 1) \o SubSeq(q, i + 1, Len(q))

\* C1: a Read Response removes the oldest pending read of opposite direction
\* and equal channel, and only that one; the other entries keep their order;
\* the attribute and the decoder of the removed entry are the ones used.
C1_OldestMatchWins ==
    [][\A c \in conns :
         (/\ out'.kind = "pdu" /\ out'.pdu.handle = c /\ ReadResponse(out'.pdu)
          /\ Matches(att_data[c].reads, out'.pdu) # {})
         => LET q == att_data[c].reads
                m == CHOOSE i \in Matches(q, out'.pdu) :
                        \A j \in Matches(q, out'.pdu) : i <= j
            IN  /\ att_data'[c].reads = Without(q, m)
                /\ out'.shown = <<q[m].attr>>
                /\ Len(out'.calls) = 1
                /\ out'.calls[1].kind = "read"
                /\ out'.calls[1].func = q[m].func
                /\ out'.calls[1].attr = q[m].attr]_vars

\* C1 happens: of two inbound channel-1 reads, of handle 1 and then of
\* handle 2, an outbound channel-1 response has consumed the one of handle 1
\* and left the one of handle 2.
C1_Witness ==
    /\ out.kind = "pdu"
    /\ out.pdu = Pdu(FALSE, 1, 1, <<11, 1, 0, 0, 0, 0>>)
    /\ Len(out.calls) = 1
    /\ out.calls[1].attr.handle = 1
    /\ Len(att_data[1].reads) = 1
    /\ att_data[1].reads[1].attr.handle = 2
    /\ att_data[1].reads[1].in /\ att_data[1].reads[1].chan = 1

\* C5: a Read Request on a known connection appends one pending read exactly
\* when its handle resolves in the selected (request-side) database to an
\* attribute whose type has a registry entry with a read decoder; the entry
\* holds the direction and channel of the request, the attribute and that
\* decoder.  Otherwise nothing is queued.
C5_ReadRequestEnqueues ==
    [][(out'.kind = "pdu" /\ ReadRequest(out'.pdu))
       => IF out'.pdu.handle \notin conns THEN att_data' = att_data
          ELSE LET p == out'.pdu
                   c == p.handle
                   h == p.buf[2] + 256 * p.buf[3]
                   db == IF p.in THEN att_data'[c].ldb ELSE att_data'[c].rdb
                   uuid == IF h \in DOMAIN db THEN db[h] ELSE 0
                   readers == {gatt_handlers[i].read :
                                 i \in {j \in DOMAIN gatt_handlers :
                                          gatt_handlers[j].uuid = uuid}} \ {"NULL"}
               IN  IF uuid # 0 /\ readers # {}
                   THEN \E rd \in readers :
                          att_data'[c].reads =
                            Append(att_data[c].reads,
                                   [attr |-> [db |-> IF p.in THEN "ldb" ELSE "rdb",
                                              handle |-> h, uuid |-> uuid],
                                    in |-> p.in, chan |-> p.cid, func |-> rd])
                   ELSE att_data'[c].reads = att_data[c].reads]_vars

\* C5 happens: an inbound Read Request of handle 1 on channel 2 was queued
\* with the read decoder of 0x2902.
C5_Witness ==
    /\ out.kind = "pdu"
    /\ out.pdu = Pdu(TRUE, 1, 2, ReadReq(1))
    /\ att_data[1].reads # <<>>
    /\ att_data[1].reads[Len(att_data[1].reads)] =
         [attr |-> [db |-> "ldb", handle |-> 1, uuid |-> 10498],
          in |-> TRUE, chan |-> 2, func |-> "ccc_read"]

\* C6: a Read Response for which the queue has no entry of opposite
\* direction and equal channel is raw-dumped, no decoder is called and the
\* queue stays as it was.
C6_NoMatchNoDecode ==
    [][(/\ out'.kind = "pdu" /\ ReadResponse(out'.pdu)
        /\ (out'.pdu.handle \in conns
            => Matches(att_data[out'.pdu.handle].reads, out'.pdu) = {}))
       => /\ \A c \in ConnHandles : att_data'[c].reads = att_data[c].reads
          /\ out'.calls = <<>>
          /\ out'.ev = <<Field("Read Response", Len(out'.pdu.buf) - 1),
                         Hex("Value", Len(out'.pdu.buf) - 1)>>]_vars

\* C6 happens: an inbound response on channel 1 met a queue that holds only
\* an inbound channel-1 read, and an outbound response on channel 2 met a
\* queue that holds only channel-1 reads.
C6_Witness ==
    /\ out.kind = "pdu"
    /\ ReadResponse(out.pdu)
    /\ out.pdu.handle = 1
    /\ att_data[1].reads # <<>>
    /\ \A i \in DOMAIN att_data[1].reads : att_data[1].reads[i].in
                                          /\ att_data[1].reads[i].chan = 1
    /\ \/ out.pdu.in /\ out.pdu.cid = 1
       \/ ~out.pdu.in /\ out.pdu.cid = 2
    /\ out.calls = <<>>

\* C7: the queue of a connection changes only by a Read Request of that
\* connection, which appends at most one entry, and by a Read Response of
\* that connection, which removes at most one; any other PDU and any PDU of
\* another connection leave it as it is, until the connection is destroyed.
C7_QueueChanges ==
    [][out'.kind # "destroy"
       => \A c \in ConnHandles :
            LET q == att_data[c].reads
                q2 == att_data'[c].reads
                mine == out'.kind = "pdu" /\ out'.pdu.handle = c
            IN  IF mine /\ ReadRequest(out'.pdu)
                THEN q2 = q \/ (Len(q2) = Len(q) + 1 /\ SubSeq(q2, 1, Len(q)) = q)
                ELSE IF mine /\ ReadResponse(out'.pdu)
                THEN q2 = q \/ \E i \in DOMAIN q : q2 = Without(q, i)
                ELSE q2 = q]_vars

\* C7 happens: a notification was decoded while two reads were pending, and
\* they are still pending.
C7_Witness ==
    /\ out.kind = "pdu"
    /\ out.pdu = Pdu(TRUE, 1, 1, <<27, 2, 0, 0, 0, 0, 0>>)
    /\ Len(att_data[1].reads) >= 2

\* The database of each (direction, response-side flag).
DbOf(in, rsp) ==
    CASE in /\ ~rsp -> "ldb"
      [] in /\ rsp -> "rdb"
      [] ~in /\ ~rsp -> "rdb"
      [] ~in /\ rsp -> "ldb"

\* C8: every attribute resolution of a call uses the database DbOf gives for
\* the direction of the PDU and the response-side flag, whatever the opcode,
\* channel and handle; ldb holds the local attributes and rdb those of the
\* peer, and an attribute shown is the one that database stores.
C8_DatabaseSelection ==
    /\ \A i \in DOMAIN out.sel :
         /\ out.sel[i].in = out.pdu.in
         /\ out.sel[i].db = DbOf(out.sel[i].in, out.sel[i].rsp)
    /\ \A c \in ConnHandles : /\ att_data[c].ldb \in {EmptyDb, LocalFile}
                              /\ att_data[c].rdb \in {EmptyDb, CacheFile}
    /\ \A i \in DOMAIN out.shown :
         out.shown[i] # NoAttr
         => out.shown[i].uuid = (IF out.shown[i].db = "ldb" THEN LocalFile
                                 ELSE CacheFile)[out.shown[i].handle]

\* C8 happens: an outbound notification resolved its handle once as a
\* request (remote database) and once as a response (local database).
C8_Witness ==
    /\ out.kind = "pdu"
    /\ ~out.pdu.in
    /\ out.sel = <<[in |-> FALSE, rsp |-> FALSE, db |-> "rdb"],
                   [in |-> FALSE, rsp |-> TRUE, db |-> "ldb"]>>

\* A Handle Value Notification or Indication that passes length validation,
\* and the attribute its handle has in the response-side database: the
\* database of the peer for an inbound PDU, the local one for an outbound.
Notification(p) == Len(p.buf) >= 3 /\ p.buf[1] \in {27, 29}

NotifiedAttr(p) ==
    IF p.in THEN gatt_db_get_attribute("rdb", CacheFile, get_le16(p.buf, 1))
    ELSE gatt_db_get_attribute("ldb", LocalFile, get_le16(p.buf, 1))

\* C11: for a notification or indication on a known connection, the
\* attribute shown for the handle is the one the response-side database has
\* at that handle, and a notify decoder that is called is called for that
\* same attribute.
C11_NotifyAttribute ==
    (out.kind = "pdu" /\ Notification(out.pdu) /\ out.known)
    => /\ out.shown = <<NotifiedAttr(out.pdu)>>
       /\ \A k \in DOMAIN out.calls : out.calls[k].attr = NotifiedAttr(out.pdu)

\* The registry entries of the type of attribute attr.
EntriesOf(attr) == {i \in DOMAIN gatt_handlers : gatt_handlers[i].uuid = attr.uuid}

\* C12: for a notification or indication whose attribute has a registry
\* entry without a notify decoder, nothing is called, the process lives on
\* and the value is raw-dumped; with a notify decoder, that decoder is the
\* one called.
C12_NotifyDecoderOptional ==
    (/\ out.kind = "pdu" /\ Notification(out.pdu) /\ out.known
     /\ NotifiedAttr(out.pdu) # NoAttr /\ EntriesOf(NotifiedAttr(out.pdu)) # {})
    => IF \A i \in EntriesOf(NotifiedAttr(out.pdu)) : gatt_handlers[i].notify = "NULL"
       THEN /\ out.calls = <<>>
            /\ ~out.crash
            /\ Len(out.ev) = 3
            /\ out.ev[3] = Hex("Data", Len(out.pdu.buf) - 3)
       ELSE /\ Len(out.calls) = 1
            /\ \E i \in EntriesOf(NotifiedAttr(out.pdu)) :
                 out.calls[1].func = gatt_handlers[i].notify

\* C23: a Read Response on a connection that is known and has no ATT
\* context yet (no PDU before it made one) matches no pending read: its
\* value is raw-dumped, no decoder is called, the call returns, and the
\* connection is left as it was.
C23_ResponseBeforeContext ==
    [][(/\ out'.kind = "pdu" /\ ReadResponse(out'.pdu)
        /\ out'.pdu.handle \in conns
        /\ ~att_data[out'.pdu.handle].present)
       => /\ ~out'.crash
          /\ out'.calls = <<>>
          /\ out'.ev[Len(out'.ev)] = Hex("Value", Len(out'.pdu.buf) - 1)
          /\ att_data' = att_data]_vars

\* A Write Request or Write Command that passes length validation, and the
\* attribute its handle has in the request-side database.
Write(p) == Len(p.buf) >= 3 /\ p.buf[1] \in {18, 82}

WrittenAttr(p) ==
    IF p.in THEN gatt_db_get_attribute("ldb", LocalFile, get_le16(p.buf, 1))
    ELSE gatt_db_get_attribute("rdb", CacheFile, get_le16(p.buf, 1))

\* C24: for a write whose attribute has a registry entry, the write
\* decoder is called only if the entry has one; for an entry without a
\* write decoder nothing is called, the process lives on and the value is
\* raw-dumped.
C24_WriteDecoderOptional ==
    (/\ out.kind = "pdu" /\ Write(out.pdu) /\ out.known
     /\ WrittenAttr(out.pdu) # NoAttr /\ EntriesOf(WrittenAttr(out.pdu)) # {})
    => IF \A i \in EntriesOf(WrittenAttr(out.pdu)) : gatt_handlers[i].write = "NULL"
       THEN /\ out.calls = <<>>
            /\ ~out.crash
            /\ out.ev[Len(out.ev)] = Hex("Data", Len(out.pdu.buf) - 3)
       ELSE /\ Len(out.calls) = 1
            /\ \E i \in EntriesOf(WrittenAttr(out.pdu)) :
                 out.calls[1].func = gatt_handlers[i].write

(***************************************************************************)
(* Properties of dispatch and length validation (SpecDispatch).            *)
(***************************************************************************)
\* The marker of a PDU that fails length validation: att_packet prints
\* "invalid size" for a fixed-length opcode and "too short packet" for a
\* variable-length one.
InvalidSize(e) == e.t = "error" /\ e.s \in {"invalid size", "too short packet"}

\* C2: a PDU of a fixed-length opcode with a handler whose payload length is
\* not the declared size does not reach the handler: the invalid-size marker
\* and the raw dump of the payload are all that follows the opcode line, and
\* nothing of the connection changes.
C2_FixedLengthMismatch ==
    [][\A i \in DOMAIN att_opcode_table :
         (/\ out'.kind = "pdu" /\ Len(out'.pdu.buf) >= 1
          /\ out'.pdu.buf[1] = att_opcode_table[i].opcode
          /\ att_opcode_table[i].func # "NULL"
          /\ att_opcode_table[i].fixed
          /\ Len(out'.pdu.buf) - 1 # att_opcode_table[i].size)
         => /\ out'.func = "none"
            /\ out'.calls = <<>> /\ out'.sel = <<>>
            /\ out'.ev = <<Field(att_opcode_table[i].str, Len(out'.pdu.buf) - 1),
                           Err("invalid size"),
                           Hex("", Len(out'.pdu.buf) - 1)>>
            /\ att_data' = att_data /\ conns' = conns /\ ~crashed']_vars

\* C2 happens: a Read Request with a payload of 3 bytes was rejected on a
\* connection that has a pending read.
C2_Witness ==
    /\ out.kind = "pdu"
    /\ out.pdu.buf = <<10, 1, 0, 0>>
    /\ out.func = "none"
    /\ out.ev = <<Field("Read Request", 3), Err("invalid size"), Hex("", 3)>>
    /\ att_data[1].reads # <<>>

\* C3: a PDU of a variable-length opcode with a handler is rejected like a
\* fixed-length mismatch when its payload is shorter than the declared
\* minimum, and reaches its handler when the payload has the minimum length
\* or more.
C3_VariableLengthMinimum ==
    [][\A i \in DOMAIN att_opcode_table :
         (/\ out'.kind = "pdu" /\ Len(out'.pdu.buf) >= 1
          /\ out'.pdu.buf[1] = att_opcode_table[i].opcode
          /\ att_opcode_table[i].func # "NULL"
          /\ ~att_opcode_table[i].fixed)
         => IF Len(out'.pdu.buf) - 1 < att_opcode_table[i].size
            THEN /\ out'.func = "none"
                 /\ out'.calls = <<>> /\ out'.sel = <<>>
                 /\ Len(out'.ev) = 3
                 /\ out'.ev[1] = Field(att_opcode_table[i].str, Len(out'.pdu.buf) - 1)
                 /\ InvalidSize(out'.ev[2])
                 /\ out'.ev[3] = Hex("", Len(out'.pdu.buf) - 1)
                 /\ att_data' = att_data /\ conns' = conns /\ ~crashed'
            ELSE out'.func = att_opcode_table[i].func]_vars

\* C3 happens: a Write Request with a payload of 1 byte was rejected on a
\* connection that has a pending read.
C3_Witness ==
    /\ out.kind = "pdu"
    /\ out.pdu.buf = <<18, 1>>
    /\ out.func = "none"
    /\ Len(out.ev) = 3 /\ InvalidSize(out.ev[2])
    /\ att_data[1].reads # <<>>

\* C17: dispatch by the first byte.  An opcode of the table with a handler
\* reaches the handler exactly when its payload length passes validation,
\* and is marked invalid otherwise.  An opcode of the table without a
\* handler, and a byte the table does not have, reach no handler and get no
\* marker: the payload is raw-dumped whole, no database is consulted and
\* nothing of any connection changes.
C17_DispatchOutcomes ==
    [][(out'.kind = "pdu" /\ Len(out'.pdu.buf) >= 1)
       => /\ \A i \in DOMAIN att_opcode_table :
               (/\ att_opcode_table[i].opcode = out'.pdu.buf[1]
                /\ att_opcode_table[i].func # "NULL")
               => IF (IF att_opcode_table[i].fixed
                      THEN Len(out'.pdu.buf) - 1 = att_opcode_table[i].size
                      ELSE Len(out'.pdu.buf) - 1 >= att_opcode_table[i].size)
                  THEN /\ out'.func = att_opcode_table[i].func
                       /\ \A k \in DOMAIN out'.ev :
                            k <= 2 => ~InvalidSize(out'.ev[k])
                  ELSE /\ out'.func = "none"
                       /\ InvalidSize(out'.ev[2])
          /\ \A i \in DOMAIN att_opcode_table :
               (/\ att_opcode_table[i].opcode = out'.pdu.buf[1]
                /\ att_opcode_table[i].func = "NULL")
               => /\ out'.func = "none"
                  /\ out'.ev = <<Field(att_opcode_table[i].str, Len(out'.pdu.buf) - 1),
                                 Hex("", Len(out'.pdu.buf) - 1)>>
                  /\ out'.sel = <<>> /\ out'.shown = <<>> /\ out'.calls = <<>>
                  /\ att_data' = att_data /\ conns' = conns /\ ~crashed'
          /\ (\A i \in DOMAIN att_opcode_table :
                att_opcode_table[i].opcode # out'.pdu.buf[1])
             => /\ out'.func = "none"
                /\ out'.ev = <<Field("Unknown", Len(out'.pdu.buf) - 1),
                               Hex("", Len(out'.pdu.buf) - 1)>>
                /\ out'.sel = <<>> /\ out'.shown = <<>> /\ out'.calls = <<>>
                /\ att_data' = att_data /\ conns' = conns /\ ~crashed']_vars

\* C17 happens: a Read Multiple Response (0x0f, no handler) with a payload
\* of one byte was raw-dumped on a connection that has a pending read.
C17_Witness ==
    /\ out.kind = "pdu"
    /\ out.pdu.buf = <<15, 1>>
    /\ out.func = "none"
    /\ out.ev = <<Field("Read Multiple Response", 1), Hex("", 1)>>
    /\ att_data[1].reads # <<>>

C4_NoReadOutsidePdu == ~out.oob

\* A Read By Type Response (header 2) or a Read By Group Type Response
\* (header 4) that has its length byte.
DataList(p) == Len(p.buf) >= 2 /\ p.buf[1] \in {9, 17}

\* C26: in a Read By Type Response and a Read By Group Type Response, for
\* every per-entry length, the lengths smaller than the header of an entry
\* among them, the entries are read inside the PDU and the call returns;
\* with length 0 no entry is decoded.
C26_EntryLength ==
    (out.kind = "pdu" /\ DataList(out.pdu))
    => /\ ~out.oob
       /\ ~out.crash
       /\ out.pdu.buf[2] = 0
          => \A k \in DOMAIN out.ev : out.ev[k].s # "entries"

\* A Signed Write Command that passes length validation.
SignedWrite(p) == Len(p.buf) >= 15 /\ p.buf[1] = 210

\* C27: the write decoder of a Signed Write Command is given the value
\* only: the bytes after the handle and before the 12 bytes of signature.
C27_SignedWriteValue ==
    (out.kind = "pdu" /\ SignedWrite(out.pdu))
    => \A k \in DOMAIN out.calls :
         /\ out.calls[k].pos = 3
         /\ out.calls[k].size = Len(out.pdu.buf) - 3 - 12
         /\ out.calls[k].pos + out.calls[k].used <= Len(out.pdu.buf) - 12

(***************************************************************************)
(* Properties of multiple-variable-length PDUs (SpecVL).                   *)
(***************************************************************************)
\* C9: when an entry whose value fits in the PDU has been processed, the
\* cursor stands 4 + length bytes after the start of the entry, and the next
\* entry starts there.
C9_CursorAdvance ==
    \A i \in DOMAIN out.ents :
        /\ out.ents[i].len <= out.ents[i].left
           => out.ents[i].end = out.ents[i].start + 4 + out.ents[i].len
        /\ (i > 1 /\ out.ents[i - 1].len <= out.ents[i - 1].left)
           => out.ents[i].start = out.ents[i - 1].start + 4 + out.ents[i - 1].len

\* C10: the decoder called for an entry is given the length bytes that
\* follow the header of the entry, which all lie in the PDU, and consumes
\* none but these; an entry whose length exceeds the bytes left has no
\* decoder called.
C10_BoundedView ==
    /\ \A k \in DOMAIN out.calls :
         /\ out.calls[k].kind = "notify"
         /\ out.calls[k].pos >= 5
         /\ out.calls[k].attr.handle = get_le16(out.pdu.buf, out.calls[k].pos - 4)
         /\ out.calls[k].size = get_le16(out.pdu.buf, out.calls[k].pos - 2)
         /\ out.calls[k].pos + out.calls[k].size <= Len(out.pdu.buf)
         /\ out.calls[k].used <= out.calls[k].size
    /\ \A i \in DOMAIN out.ents :
         out.ents[i].len > out.ents[i].left
         => \A k \in DOMAIN out.calls : out.calls[k].pos # out.ents[i].start + 4

\* C10 happens: the first entry has fewer value bytes than the PDU has left,
\* and its decoder was given a clone of that many bytes and consumed them all.
C10_Witness ==
    /\ out.kind = "pdu"
    /\ out.ents # <<>> /\ out.calls # <<>>
    /\ out.calls[1].pos = out.ents[1].start + 4
    /\ ~out.calls[1].shared
    /\ out.calls[1].size = out.ents[1].len
    /\ out.ents[1].len < out.ents[1].left
    /\ out.calls[1].used = out.calls[1].size
    /\ out.calls[1].size > 0

\* A multiple-variable-length PDU that passes length validation.
MultipleVl(p) == Len(p.buf) >= 5 /\ p.buf[1] \in {33, 35}

\* C19: the loop over the entries of a multiple-variable-length PDU ends,
\* whatever the payload: every entry processed starts where the one before
\* ended and ends at least the 4 header bytes later, inside the PDU, so
\* there are no more entries than a quarter of the payload; and the loop is
\* left with the cursor exhausted or too short for a header field.
C19_VlTerminates ==
    (out.kind = "pdu" /\ MultipleVl(out.pdu))
    => /\ \A i \in DOMAIN out.ents :
            /\ out.ents[i].start = (IF i = 1 THEN 1 ELSE out.ents[i - 1].end)
            /\ out.ents[i].end >= out.ents[i].start + 4
            /\ out.ents[i].end <= Len(out.pdu.buf)
       /\ 4 * Len(out.ents) <= Len(out.pdu.buf) - 1
       /\ (out.crash \/ out.f.size < 2)
       /\ ~out.crash => out.f.pos + out.f.size = Len(out.pdu.buf)

\* C19 happens: two entries were processed, the first with an empty value,
\* and the loop ended with the cursor exhausted.
C19_Witness ==
    /\ out.kind = "pdu" /\ MultipleVl(out.pdu)
    /\ Len(out.ents) = 2
    /\ out.ents[1].len = 0
    /\ out.ents[2].start = 5
    /\ ~out.crash
    /\ out.f.size = 0

(***************************************************************************)
(* Properties of two connections (SpecTwo).                                *)
(***************************************************************************)
\* C20: a PDU changes the data of no connection but its own.  A Read
\* Request extends only the queue of its connection.  A Read Response is
\* decoded only with a pending read of the queue of its connection, which
\* it removes from that queue: when that queue has no read of opposite
\* direction and equal channel nothing is decoded, whatever the queue of
\* the other connection holds.
C20_PerConnection ==
    [][out'.kind = "pdu"
       => /\ \A o \in ConnHandles \ {out'.pdu.handle} : att_data'[o] = att_data[o]
          /\ (ReadRequest(out'.pdu) /\ out'.pdu.handle \in conns)
             => /\ Len(att_data'[out'.pdu.handle].reads)
                     >= Len(att_data[out'.pdu.handle].reads)
                /\ SubSeq(att_data'[out'.pdu.handle].reads, 1,
                          Len(att_data[out'.pdu.handle].reads))
                     = att_data[out'.pdu.handle].reads
          /\ (ReadResponse(out'.pdu) /\ out'.pdu.handle \in conns)
             => IF Matches(att_data[out'.pdu.handle].reads, out'.pdu) = {}
                THEN /\ out'.calls = <<>>
                     /\ att_data'[out'.pdu.handle].reads
                          = att_data[out'.pdu.handle].reads
                ELSE \E i \in Matches(att_data[out'.pdu.handle].reads, out'.pdu) :
                       /\ att_data'[out'.pdu.handle].reads
                            = Without(att_data[out'.pdu.handle].reads, i)
                       /\ \A k \in DOMAIN out'.calls :
                            /\ out'.calls[k].attr
                                 = att_data[out'.pdu.handle].reads[i].attr
                            /\ out'.calls[k].func
                                 = att_data[out'.pdu.handle].reads[i].func]_vars

\* C20 happens: an outbound channel-1 Read Response on connection 2, whose
\* queue is empty, was not decoded although connection 1 has a pending
\* inbound channel-1 read.
C20_Witness ==
    /\ out.kind = "pdu"
    /\ out.pdu = Pdu(FALSE, 2, 1, <<11, 1, 0, 0, 0, 0>>)
    /\ out.calls = <<>>
    /\ ~out.crash
    /\ 2 \in conns /\ att_data[2].present
    /\ att_data[2].reads = <<>>
    /\ att_data[1].reads # <<>>
    /\ att_data[1].reads[1].in /\ att_data[1].reads[1].chan = 1

(***************************************************************************)
(* Properties of the value decoders (SpecDecode).                          *)
(***************************************************************************)
\* A control point value that has its opcode and count bytes.
AseCpValue(v) ==
    /\ out.kind = "value"
    /\ v.func \in {"ase_cp_write", "ase_cp_notify"}
    /\ Len(v.buf) >= 2

\* The positions in ev of the "ASE: #i" lines, one per entry attempted, and
\* of the error lines.
AseEntries(ev) == {k \in DOMAIN ev : ev[k].t = "field" /\ ev[k].s = "ASE"}

Errors(ev) == {k \in DOMAIN ev : ev[k].t = "error"}

\* The count is advisory for the values whose opcode byte is in ops: the
\* entries attempted are #0, #1, ... in order and no more than the count;
\* after an error line no entry is attempted and only the raw dump follows;
\* when fewer entries than the count were attempted without an error, the
\* frame has no bytes left; the decoder returns, and what it leaves of the
\* value is raw-dumped.
CountAdvisory(ops) ==
    (AseCpValue(out.pdu) /\ out.pdu.buf[1] \in ops)
    => /\ Cardinality(AseEntries(out.ev)) <= out.pdu.buf[2]
       /\ \A k \in AseEntries(out.ev) :
            out.ev[k].n = Cardinality({j \in AseEntries(out.ev) : j < k})
       /\ \A e \in Errors(out.ev) :
            /\ \A k \in AseEntries(out.ev) : k < e
            /\ \A j \in DOMAIN out.ev : j > e => out.ev[j].t = "hex"
       /\ (/\ Cardinality(AseEntries(out.ev)) < out.pdu.buf[2]
           /\ Errors(out.ev) = {}
           /\ out.ev[1].s # "Opcode: Reserved")
          => out.f.size = 0
       /\ ~out.crash
       /\ out.f.pos + out.f.size = Len(out.pdu.buf)
       /\ IF out.f.size > 0
          THEN out.ev[Len(out.ev)] = Hex("Data", out.f.size)
          ELSE out.ev[Len(out.ev)].t # "hex"

\* C13: ASE command and command-response decoding treat the count as
\* advisory, for every opcode byte: entries are attempted in order from #0
\* and never more than the count, decoding stops at the first entry that
\* fails or when the frame is empty, and the bytes left are raw-dumped.
C13_CountAdvisory == CountAdvisory(0 .. 255)

\* The same for the opcodes the command table names.
NamedCommandsCountAdvisory == CountAdvisory(1 .. 8)

\* An Enable command of count 3 whose second entry is cut: entry #0 is
\* decoded, entry #1 reports the cut, entry #2 is not attempted.
CutSecondEntry ==
    /\ out.kind = "value"
    /\ out.pdu = Value("ase_cp_write", <<3, 3, 0, 0, 1, 1>>)
    /\ out.ev = <<Field("Opcode", 3), Field("Number of ASE(s)", 3),
                  Field("ASE", 0), Field("ASE ID", 1), Field("Metadata", 0),
                  Field("ASE", 1), Field("ASE ID", 1), Err("Metadata")>>

\* C14: an opcode byte equal to the size of the command table, or larger,
\* is reported as reserved: no slot of the table is read, no entry decoder
\* runs, and the bytes after the count are raw-dumped.
C14_OpcodeOutOfRange ==
    (AseCpValue(out.pdu) /\ out.pdu.buf[1] >= ARRAY_SIZE(ase_cmd_table))
    => /\ ~out.tbl
       /\ ~out.crash
       /\ out.ev = <<Field("Opcode: Reserved", out.pdu.buf[1])>>
                   \o (IF Len(out.pdu.buf) > 2
                       THEN <<Hex("Data", Len(out.pdu.buf) - 2)>> ELSE <<>>)

\* What print_pac prints for the codec of a record, for a whole record, and
\* for the whole records #i .. #(n - 1).
CodecEv ==
    <<Field("Codec", 1), Field("Codec Company ID", 2), Field("Codec Vendor ID", 2)>>

WholePacEv(i) ==
    <<Field("PAC", i)>> \o CodecEv
    \o <<Field("Codec Specific Capabilities", 2), Ltv("empty", 0), Ltv("empty", 0),
         Field("Metadata", 1), Ltv("empty", 0)>>

RECURSIVE WholePacsEv(_, _)
WholePacsEv(i, n) == IF i >= n THEN <<>> ELSE WholePacEv(i) \o WholePacsEv(i + 1, n)

\* What is to be printed for the PAC value of cut c: the whole records, the
\* fields of the cut record that precede the cut, the error of the cut
\* field, and the raw dump of the bytes left.
CutPacEv(c) ==
    <<Field("Number of PAC(s)", c.whole + c.more)>>
    \o WholePacsEv(0, c.whole)
    \o <<Field("PAC", c.whole)>> \o CodecEv
    \o (IF c.md THEN <<Field("Codec Specific Capabilities", 2), Ltv("empty", 0),
                         Ltv("empty", 0), Err("Metadata")>>
        ELSE <<Err("Codec Specific Capabilities")>>)
    \o (IF c.left > 0 THEN <<Hex("Data", c.left)>> ELSE <<>>)

\* C15: when the length byte of a record declares more bytes than the frame
\* has left, the record is not decoded, no further record or PAC is
\* attempted, the bytes left are raw-dumped and no others, the cursor stays
\* inside the frame, and what was printed for the records before is kept.
C15_TruncatedRecord ==
    \A c \in PacCuts :
        (/\ out.kind = "value"
         /\ out.pdu = Value("pac_read",
                            CutPac(c.whole + c.more, c.whole, c.md, c.declared, c.left)))
        => /\ out.ev = CutPacEv(c)
           /\ out.f.size = c.left
           /\ out.f.pos + out.f.size = Len(out.pdu.buf)
           /\ ~out.oob /\ ~out.tbl /\ ~out.crash

\* C15 happens: after one whole PAC, the capabilities of the second declare
\* 10 bytes and 4 are left; the 4 bytes were raw-dumped.
C15_Witness ==
    /\ out.kind = "value"
    /\ out.pdu = Value("pac_read", CutPac(2, 1, FALSE, 10, 4))
    /\ out.ev = <<Field("Number of PAC(s)", 2)>> \o WholePacEv(0)
                \o <<Field("PAC", 1)>> \o CodecEv
                \o <<Err("Codec Specific Capabilities"), Hex("Data", 4)>>

\* C16: in an ASE status value, a state byte outside 1..5 has no payload
\* decoder: states 0 (Idle) and 6 (Releasing) are named, every other one is
\* reported as reserved, and all bytes after the state byte are raw-dumped.
C16_StateWithoutPayload ==
    (/\ out.kind = "value" /\ out.pdu.func = "ase_read"
     /\ Len(out.pdu.buf) >= 2 /\ out.pdu.buf[2] \notin 1 .. 5)
    => /\ out.ev = <<Field("ASE ID", 1),
                     Field(IF out.pdu.buf[2] \in {0, 6} THEN "State"
                           ELSE "State: Reserved", out.pdu.buf[2])>>
                   \o (IF Len(out.pdu.buf) > 2
                       THEN <<Hex("Data", Len(out.pdu.buf) - 2)>> ELSE <<>>)
       /\ out.f.pos = 2
       /\ out.f.size = Len(out.pdu.buf) - 2
       /\ ~out.crash

\* C16 happens: state 0xff followed by three bytes was reported as reserved
\* and the three bytes were raw-dumped.
C16_Witness ==
    /\ out.kind = "value" /\ out.pdu.func = "ase_read"
    /\ Len(out.pdu.buf) = 5 /\ out.pdu.buf[2] = 255
    /\ out.ev = <<Field("ASE ID", 1), Field("State: Reserved", 255), Hex("Data", 3)>>

\* C25: an opcode byte for which the command table defines no command,
\* 0x00 among them, is reported as reserved and no entry decoder runs: an
\* entry decoder runs only for the opcodes 0x01 .. 0x08.
C25_UndefinedOpcodeReserved ==
    /\ (AseCpValue(out.pdu) /\ out.pdu.buf[1] \notin 1 .. 8)
       => /\ out.ev[1] = Field("Opcode: Reserved", out.pdu.buf[1])
          /\ AseEntries(out.ev) = {}
          /\ ~out.crash
    /\ (AseCpValue(out.pdu) /\ out.pdu.func = "ase_cp_write"
        /\ AseEntries(out.ev) # {})
       => out.pdu.buf[1] \in 1 .. 8

\* The positions in ev of the records of a metadata: the LTV lines that
\* follow a "Metadata" line with nothing but LTV lines in between.
MetadataRecords(ev) ==
    {k \in DOMAIN ev :
        /\ ev[k].t = "ltv"
        /\ \E j \in 1 .. k - 1 :
             /\ ev[j].t = "field" /\ ev[j].s = "Metadata"
             /\ \A i \in j + 1 .. k : ev[i].t = "ltv"}

\* C28: the metadata of an ASE in the states Enabling, Streaming and
\* Disabling, of a PAC record and of an Enable or Update Metadata command
\* is decoded through the metadata tag table: a record of tag 0x01 .. 0x04
\* goes to the decoder the table has for the tag, and a record of another
\* tag is raw-dumped.
C28_MetadataTable ==
    (out.kind = "value" /\ out.pdu \in MetadataValues)
    => /\ MetadataRecords(out.ev) # {}
       /\ \A k \in MetadataRecords(out.ev) :
            out.ev[k].s = get_ltv_decoder(ase_metadata_table, out.ev[k].n)

\* The bits of a table, the sum of 2^b over a set of bits, and the bits set
\* in a value of width bits that no entry of the table names.
TableBits(table) == {table[i].bit : i \in DOMAIN table}

RECURSIVE SumBits(_)
SumBits(S) ==
    IF S = {} THEN 0
    ELSE The({ 2^b + SumBits(S \ {b}) : b \in {CHOOSE x \in S : TRUE} })

Residual(val, table, width) ==
    SumBits({b \in 0 .. width - 1 : TestBit(val, b) = 1 /\ b \notin TableBits(table)})

\* The lines ev are the decoding of val against table: one label for each
\* entry whose bit is set, in the order of the table, and for no other
\* entry; the bits of the labels and the residual add up to val; the
\* 'Unknown fields' line is the last line, carries the residual, and is
\* there exactly when the residual is not zero.
BitfieldDecoded(ev, val, table, width) ==
    /\ \A k \in DOMAIN ev : ev[k].t \in {"bit", "unknown"}
    /\ {[bit |-> ev[k].n, str |-> ev[k].s] : k \in {j \in DOMAIN ev : ev[j].t = "bit"}}
         = {table[i] : i \in {j \in DOMAIN table : TestBit(val, table[j].bit) = 1}}
    /\ \A j, k \in DOMAIN ev :
          (j < k /\ ev[j].t = "bit" /\ ev[k].t = "bit") => ev[j].n < ev[k].n
    /\ SumBits({ev[k].n : k \in {j \in DOMAIN ev : ev[j].t = "bit"}})
         + Residual(val, table, width) = val
    /\ \A k \in DOMAIN ev :
          ev[k].t = "unknown"
          => k = Len(ev) /\ ev[k] = Unknown(Residual(val, table, width))
    /\ (Residual(val, table, width) # 0) <=> (\E k \in DOMAIN ev : ev[k].t = "unknown")

\* The position of the line s in ev.
LineOf(ev, s) == CHOOSE k \in DOMAIN ev : ev[k].t = "field" /\ ev[k].s = s

\* C21: bitfield decoding partitions the set bits of the value: a label is
\* printed for exactly the table entries whose bit is set, the residual is
\* exactly the set bits that have no entry, and the 'Unknown fields' line
\* is printed if and only if the residual is not zero.  It is so for the
\* CCC byte and for the sink and source contexts.
C21_BitfieldPartition ==
    /\ (/\ out.kind = "value" /\ out.pdu.func \in {"ccc_read", "ccc_write"}
        /\ Len(out.pdu.buf) >= 1)
       => BitfieldDecoded(out.ev, out.pdu.buf[1], ccc_value_table, 8)
    /\ (/\ out.kind = "value" /\ out.pdu.func = "pac_context_read"
        /\ Len(out.pdu.buf) = 4)
       => /\ out.ev[1] = Field("Sink Context", 2)
          /\ BitfieldDecoded(
                 SubSeq(out.ev, 2, LineOf(out.ev, "Source Context") - 1),
                 get_le16(out.pdu.buf, 0), pac_context_table, 16)
          /\ BitfieldDecoded(
                 SubSeq(out.ev, LineOf(out.ev, "Source Context") + 1, Len(out.ev)),
                 get_le16(out.pdu.buf, 2), pac_context_table, 16)

\* C21 happens: the CCC value 0b101 printed the label of bit 0 and the
\* unknown fields 0b100.
C21_Witness ==
    /\ out.kind = "value"
    /\ out.pdu = Value("ccc_read", <<5>>)
    /\ out.ev = <<BitLine("Notification (0x01)", 0), Unknown(4)>>

(***************************************************************************)
(* Properties of requests answered one at a time (SpecSerial).             *)
(***************************************************************************)
\* The attribute Read Request req names: its handle in the database of the
\* request side.
RequestedAttr(req) ==
    gatt_db_get_attribute(DbOf(req.in, FALSE),
                          IF req.in THEN LocalFile ELSE CacheFile, req.buf[2])

\* C22: when every Read Request gets its one answer, a Read Response or an
\* Error Response, before the next Read Request, a Read Response that is
\* decoded is decoded as the attribute of the Read Request it answers and
\* with the read decoder of that attribute, never with those of an earlier
\* Read Request.
C22_ResponseAnswersRequest ==
    [][(/\ pending # NoPdu
        /\ out'.kind = "pdu" /\ ReadResponse(out'.pdu)
        /\ out'.calls # <<>>)
       => /\ out'.calls[1].attr = RequestedAttr(pending)
          /\ out'.calls[1].func = get_handler(RequestedAttr(pending)).read]_vars

====
